---- MODULE Spec2Model ----
(***************************************************************************)
(* The results store of pytest-failure-tracker (db.py: TestResultsDB) as a *)
(* state machine: the DuckDB file with its two tables, two sequences and   *)
(* the test_summary view, and one action per method of the class; and the  *)
(* pytest plugin (plugin.py) that writes to it: the session object, the    *)
(* snapshot file test_results.json and one action per hook.                *)
(*                                                                         *)
(* Representation                                                          *)
(*   - a table is the sequence of its rows in insertion order;             *)
(*   - SQL NULL / Python None in a VARCHAR or DOUBLE column is the value   *)
(*     NULL, in the INTEGER column run_id the value NullRunId;             *)
(*   - a traceback string is the sequence of its segments between '\n'     *)
(*     characters ("a\nb" is <<"a","b">>, "" is <<"">>), NULL is <<>>;     *)
(*   - a TIMESTAMP is a natural number (a reading of the wall clock);      *)
(*   - a DOUBLE duration is the shortest decimal numeral of the double     *)
(*     ("0.1"), with the arithmetic of doubles given by tables;            *)
(*   - the DOUBLE ratio of two counts is <<numerator, denominator>>,       *)
(*     compared by cross multiplication;                                   *)
(*   - an optional value is <<>> or <<v>>;                                 *)
(*   - what SQL leaves open (the order of rows equal under ORDER BY, the   *)
(*     row a join delivers last, the order of a summation) is settled by   *)
(*     the engine at the first read of the rows stored and kept in the     *)
(*     variable engine until the next write.                               *)
(***************************************************************************)
EXTENDS Integers, Sequences, FiniteSets, TLC

\* ---------------------------------------------------------------- bounds
MaxRuns == 2
MaxResults == 3
\* Sequence values a behaviour may hand out beyond the rows it may store
\* (values consumed by statements that failed).
MaxRunSeq == MaxRuns + 1
MaxResultSeq == MaxResults + 1
\* Readings of the wall clock: one per stored row is enough for every
\* statement to read a later instant than the one before.
Timestamps == 0..(MaxRuns + MaxResults)
\* The plugin builds two handles per process (plugin.py: pytest_sessionstart,
\* pytest_terminal_summary).
MaxHandles == 2

\* ------------------------------------------------------------ input sets
NULL == "<NULL>"
NoTraceback == <<>>
\* None bound to the INTEGER parameter run_id: a value that is no run_id
\* (the sequences start at 1).
NullRunId == 0

ValidStatuses == {"passed", "failed", "skipped"}
\* A run_id no start_test_run ever returns (test_db.py: 99999).
NoSuchRun == MaxRunSeq + 1
\* <<error_message, error_traceback>>
NoError == <<NULL, NoTraceback>>
SomeError == <<"AssertionError", <<"Traceback...">>>>

VARIABLES
    db_exists,        \* the file .pytest_tracker/results.db holds the schema
    test_runs,        \* table test_runs, in insertion order
    test_results,     \* table test_results, in insertion order
    run_id_seq,       \* next value of sequence run_id_seq
    result_id_seq,    \* next value of sequence result_id_seq
    run_id_saved,     \* value of run_id_seq as of the last committed statement
    result_id_saved,  \* value of result_id_seq as of the last committed statement
    handles,          \* TestResultsDB objects alive in the running process
    clock,            \* last reading of CURRENT_TIMESTAMP
    last,             \* the last call of a method: [op, args, outcome, ret]
    session,          \* the pytest session object of the running process
    results_file,     \* the file test_results.json: <<>> or <<its JSON text>>
    hook,             \* the last call of a plugin hook: [op, args, outcome]
    engine            \* what the engine settles where SQL leaves it open

vars == <<db_exists, test_runs, test_results, run_id_seq, result_id_seq,
          run_id_saved, result_id_saved, handles, clock, last,
          session, results_file, hook, engine>>

\* What the plugin adds to the state of the store.
plugin == <<session, results_file, hook>>

store == <<test_runs, test_results, run_id_seq, result_id_seq>>

\* ------------------------------------------------------------- helpers
Range(s) == {s[i] : i \in DOMAIN s}

Call(op, args, outcome, ret) ==
    [op |-> op, args |-> args, outcome |-> outcome, ret |-> ret]

\* CURRENT_TIMESTAMP: the wall clock never runs backwards; a statement reads
\* the instant of the statement before it (step 0) or a later one (step 1).
CurrentTimestamp(steps) == {clock + d : d \in steps} \cap Timestamps

\* ------------------------------------------- DOUBLE (IEEE 754 binary64)
\* The doubles that durations of 0.1, 0.2 and 0.3 seconds, their sums of up
\* to six terms and the averages of these sums give, each written as its
\* shortest decimal numeral, in ascending order.
Doubles ==
 <<
    "0.0", "0.09999999999999999", "0.1", "0.10000000000000002",
     "0.11666666666666665", "0.11666666666666668", "0.12",
     "0.12000000000000002", "0.125", "0.13333333333333333",
     "0.13999999999999999", "0.14", "0.15", "0.15000000000000002",
     "0.15999999999999998", "0.16", "0.16666666666666666",
     "0.1666666666666667", "0.175", "0.17500000000000002", "0.18",
     "0.18000000000000002", "0.18333333333333332", "0.18333333333333335",
     "0.18333333333333338", "0.19999999999999998", "0.2",
     "0.20000000000000004", "0.21666666666666665", "0.21666666666666667",
     "0.2166666666666667", "0.21999999999999997", "0.22000000000000003",
     "0.22499999999999998", "0.225", "0.22500000000000003",
     "0.2333333333333333", "0.23333333333333336", "0.24",
     "0.24000000000000005", "0.24999999999999997", "0.25",
     "0.25000000000000006", "0.25999999999999995", "0.26",
     "0.26666666666666666", "0.27499999999999997", "0.275",
     "0.27999999999999997", "0.28", "0.2833333333333333",
     "0.2833333333333334", "0.3", "0.30000000000000004", "0.4", "0.5",
     "0.6", "0.6000000000000001", "0.7", "0.7000000000000001",
     "0.7999999999999999", "0.8", "0.8999999999999999", "0.9",
     "0.9000000000000001", "0.9999999999999999", "1.0",
     "1.0000000000000002", "1.0999999999999999", "1.1",
     "1.1000000000000003", "1.2", "1.2000000000000002",
     "1.2999999999999998", "1.3", "1.3000000000000003", "1.4",
     "1.4000000000000001", "1.4999999999999998", "1.5",
     "1.5000000000000002", "1.5999999999999999", "1.6", "1.7",
     "1.7000000000000002", "1.8"
 >>

DoubleRank(x) == CHOOSE i \in DOMAIN Doubles : Doubles[i] = x

\* a <= b on doubles.
DoubleLE(a, b) == DoubleRank(a) <= DoubleRank(b)

\* <<a, b, a + b>>: the sum of two doubles, rounded to the nearest double
\* (ties to even), for a running sum a and a duration b.
DoubleAddTable ==
 {
    <<"0.0", "0.1", "0.1">>, <<"0.0", "0.2", "0.2">>,
     <<"0.0", "0.3", "0.3">>, <<"0.1", "0.1", "0.2">>,
     <<"0.1", "0.2", "0.30000000000000004">>, <<"0.1", "0.3", "0.4">>,
     <<"0.2", "0.1", "0.30000000000000004">>, <<"0.2", "0.2", "0.4">>,
     <<"0.2", "0.3", "0.5">>, <<"0.3", "0.1", "0.4">>,
     <<"0.3", "0.2", "0.5">>, <<"0.3", "0.3", "0.6">>,
     <<"0.30000000000000004", "0.1", "0.4">>,
     <<"0.30000000000000004", "0.2", "0.5">>,
     <<"0.30000000000000004", "0.3", "0.6000000000000001">>,
     <<"0.4", "0.1", "0.5">>, <<"0.4", "0.2", "0.6000000000000001">>,
     <<"0.4", "0.3", "0.7">>, <<"0.5", "0.1", "0.6">>,
     <<"0.5", "0.2", "0.7">>, <<"0.5", "0.3", "0.8">>,
     <<"0.6", "0.1", "0.7">>, <<"0.6", "0.2", "0.8">>,
     <<"0.6", "0.3", "0.8999999999999999">>,
     <<"0.6000000000000001", "0.1", "0.7000000000000001">>,
     <<"0.6000000000000001", "0.2", "0.8">>,
     <<"0.6000000000000001", "0.3", "0.9000000000000001">>,
     <<"0.7", "0.1", "0.7999999999999999">>,
     <<"0.7", "0.2", "0.8999999999999999">>, <<"0.7", "0.3", "1.0">>,
     <<"0.7000000000000001", "0.1", "0.8">>,
     <<"0.7000000000000001", "0.2", "0.9000000000000001">>,
     <<"0.7000000000000001", "0.3", "1.0">>,
     <<"0.7999999999999999", "0.1", "0.8999999999999999">>,
     <<"0.7999999999999999", "0.2", "1.0">>,
     <<"0.7999999999999999", "0.3", "1.0999999999999999">>,
     <<"0.8", "0.1", "0.9">>, <<"0.8", "0.2", "1.0">>,
     <<"0.8", "0.3", "1.1">>,
     <<"0.8999999999999999", "0.1", "0.9999999999999999">>,
     <<"0.8999999999999999", "0.2", "1.0999999999999999">>,
     <<"0.8999999999999999", "0.3", "1.2">>, <<"0.9", "0.1", "1.0">>,
     <<"0.9", "0.2", "1.1">>, <<"0.9", "0.3", "1.2">>,
     <<"0.9000000000000001", "0.1", "1.0000000000000002">>,
     <<"0.9000000000000001", "0.2", "1.1">>,
     <<"0.9000000000000001", "0.3", "1.2000000000000002">>,
     <<"0.9999999999999999", "0.1", "1.0999999999999999">>,
     <<"0.9999999999999999", "0.2", "1.2">>,
     <<"0.9999999999999999", "0.3", "1.2999999999999998">>,
     <<"1.0", "0.1", "1.1">>, <<"1.0", "0.2", "1.2">>,
     <<"1.0", "0.3", "1.3">>,
     <<"1.0000000000000002", "0.1", "1.1000000000000003">>,
     <<"1.0000000000000002", "0.2", "1.2000000000000002">>,
     <<"1.0000000000000002", "0.3", "1.3000000000000003">>,
     <<"1.0999999999999999", "0.1", "1.2">>,
     <<"1.0999999999999999", "0.2", "1.2999999999999998">>,
     <<"1.0999999999999999", "0.3", "1.4">>,
     <<"1.1", "0.1", "1.2000000000000002">>, <<"1.1", "0.2", "1.3">>,
     <<"1.1", "0.3", "1.4000000000000001">>, <<"1.2", "0.1", "1.3">>,
     <<"1.2", "0.2", "1.4">>, <<"1.2", "0.3", "1.5">>,
     <<"1.2000000000000002", "0.1", "1.3000000000000003">>,
     <<"1.2000000000000002", "0.2", "1.4000000000000001">>,
     <<"1.2000000000000002", "0.3", "1.5000000000000002">>,
     <<"1.2999999999999998", "0.1", "1.4">>,
     <<"1.2999999999999998", "0.2", "1.4999999999999998">>,
     <<"1.2999999999999998", "0.3", "1.5999999999999999">>,
     <<"1.3", "0.1", "1.4000000000000001">>, <<"1.3", "0.2", "1.5">>,
     <<"1.3", "0.3", "1.6">>, <<"1.4", "0.1", "1.5">>,
     <<"1.4", "0.2", "1.5999999999999999">>, <<"1.4", "0.3", "1.7">>,
     <<"1.4000000000000001", "0.1", "1.5000000000000002">>,
     <<"1.4000000000000001", "0.2", "1.6">>,
     <<"1.4000000000000001", "0.3", "1.7000000000000002">>,
     <<"1.5", "0.1", "1.6">>, <<"1.5", "0.2", "1.7">>,
     <<"1.5", "0.3", "1.8">>
 }

DoubleAdd(a, b) == (CHOOSE t \in DoubleAddTable : t[1] = a /\ t[2] = b)[3]

\* <<s, n, s / n>>: the quotient of a sum s of n durations by n, rounded to
\* the nearest double.
DoubleDivTable ==
 {
    <<"0.1", 1, "0.1">>, <<"0.2", 1, "0.2">>, <<"0.3", 1, "0.3">>,
     <<"0.2", 2, "0.1">>,
     <<"0.30000000000000004", 2, "0.15000000000000002">>,
     <<"0.4", 2, "0.2">>, <<"0.5", 2, "0.25">>, <<"0.6", 2, "0.3">>,
     <<"0.30000000000000004", 3, "0.10000000000000002">>,
     <<"0.4", 3, "0.13333333333333333">>,
     <<"0.5", 3, "0.16666666666666666">>,
     <<"0.6", 3, "0.19999999999999998">>,
     <<"0.6000000000000001", 3, "0.20000000000000004">>,
     <<"0.7", 3, "0.2333333333333333">>,
     <<"0.8", 3, "0.26666666666666666">>,
     <<"0.8999999999999999", 3, "0.3">>, <<"0.4", 4, "0.1">>,
     <<"0.5", 4, "0.125">>, <<"0.6", 4, "0.15">>,
     <<"0.6000000000000001", 4, "0.15000000000000002">>,
     <<"0.7", 4, "0.175">>,
     <<"0.7000000000000001", 4, "0.17500000000000002">>,
     <<"0.7999999999999999", 4, "0.19999999999999998">>,
     <<"0.8", 4, "0.2">>,
     <<"0.8999999999999999", 4, "0.22499999999999998">>,
     <<"0.9", 4, "0.225">>,
     <<"0.9000000000000001", 4, "0.22500000000000003">>,
     <<"0.9999999999999999", 4, "0.24999999999999997">>,
     <<"1.0", 4, "0.25">>,
     <<"1.0999999999999999", 4, "0.27499999999999997">>,
     <<"1.1", 4, "0.275">>, <<"1.2", 4, "0.3">>, <<"0.5", 5, "0.1">>,
     <<"0.6", 5, "0.12">>,
     <<"0.6000000000000001", 5, "0.12000000000000002">>,
     <<"0.7", 5, "0.13999999999999999">>,
     <<"0.7000000000000001", 5, "0.14">>,
     <<"0.7999999999999999", 5, "0.15999999999999998">>,
     <<"0.8", 5, "0.16">>, <<"0.8999999999999999", 5, "0.18">>,
     <<"0.9", 5, "0.18">>,
     <<"0.9000000000000001", 5, "0.18000000000000002">>,
     <<"0.9999999999999999", 5, "0.19999999999999998">>,
     <<"1.0", 5, "0.2">>,
     <<"1.0000000000000002", 5, "0.20000000000000004">>,
     <<"1.0999999999999999", 5, "0.21999999999999997">>,
     <<"1.1", 5, "0.22000000000000003">>, <<"1.2", 5, "0.24">>,
     <<"1.2000000000000002", 5, "0.24000000000000005">>,
     <<"1.2999999999999998", 5, "0.25999999999999995">>,
     <<"1.3", 5, "0.26">>, <<"1.4", 5, "0.27999999999999997">>,
     <<"1.4000000000000001", 5, "0.28">>, <<"1.5", 5, "0.3">>,
     <<"0.6", 6, "0.09999999999999999">>,
     <<"0.7", 6, "0.11666666666666665">>,
     <<"0.7000000000000001", 6, "0.11666666666666668">>,
     <<"0.7999999999999999", 6, "0.13333333333333333">>,
     <<"0.8", 6, "0.13333333333333333">>,
     <<"0.8999999999999999", 6, "0.15">>, <<"0.9", 6, "0.15">>,
     <<"0.9000000000000001", 6, "0.15000000000000002">>,
     <<"0.9999999999999999", 6, "0.16666666666666666">>,
     <<"1.0", 6, "0.16666666666666666">>,
     <<"1.0000000000000002", 6, "0.1666666666666667">>,
     <<"1.0999999999999999", 6, "0.18333333333333332">>,
     <<"1.1", 6, "0.18333333333333335">>,
     <<"1.1000000000000003", 6, "0.18333333333333338">>,
     <<"1.2", 6, "0.19999999999999998">>,
     <<"1.2000000000000002", 6, "0.20000000000000004">>,
     <<"1.2999999999999998", 6, "0.21666666666666665">>,
     <<"1.3", 6, "0.21666666666666667">>,
     <<"1.3000000000000003", 6, "0.2166666666666667">>,
     <<"1.4", 6, "0.2333333333333333">>,
     <<"1.4000000000000001", 6, "0.23333333333333336">>,
     <<"1.4999999999999998", 6, "0.24999999999999997">>,
     <<"1.5", 6, "0.25">>,
     <<"1.5000000000000002", 6, "0.25000000000000006">>,
     <<"1.5999999999999999", 6, "0.26666666666666666">>,
     <<"1.6", 6, "0.26666666666666666">>,
     <<"1.7", 6, "0.2833333333333333">>,
     <<"1.7000000000000002", 6, "0.2833333333333334">>,
     <<"1.8", 6, "0.3">>
 }

DoubleDiv(s, n) == (CHOOSE t \in DoubleDivTable : t[1] = s /\ t[2] = n)[3]

\* ------------------------------------------------------ Schema (DDL)
\* Mutant: CREATE OR REPLACE SEQUENCE, which restarts an existing sequence.
CreateOrReplaceSequence(exists, value) == 1

\* CREATE SEQUENCE IF NOT EXISTS: a new sequence starts at 1, an existing
\* one keeps its value.
CreateSequenceIfNotExists(exists, value) == IF exists THEN value ELSE 1

\* CREATE TABLE IF NOT EXISTS: a new table is empty, an existing one keeps
\* its rows.
CreateTableIfNotExists(exists, rows) == IF exists THEN rows ELSE <<>>

\* Mutant: a sequence that hands out its value without advancing.
CurrvalOnly(seq) == [value |-> seq, seq |-> seq]

\* nextval('seq'): hands out the current value and advances by one.
nextval(seq) == [value |-> seq, seq |-> seq + 1]

\* run_id INTEGER PRIMARY KEY / result_id INTEGER PRIMARY KEY
PrimaryKey(id, ids) == id \notin ids

\* test_runs: run_id PRIMARY KEY, pytest_version / python_version NOT NULL.
TestRunsConstraints(row, runs) ==
    /\ PrimaryKey(row.run_id, {r.run_id : r \in Range(runs)})
    /\ row.pytest_version # NULL
    /\ row.python_version # NULL

\* Mutant: the status column without its CHECK constraint.
StatusNotNullOnly(status) == status # NULL

\* status VARCHAR NOT NULL CHECK (status IN ('passed','failed','skipped'))
StatusCheck(status) == status # NULL /\ status \in ValidStatuses

\* Mutant: the test_id column without NOT NULL.
TestIdNullable(test_id) == TRUE

\* test_id VARCHAR NOT NULL
TestIdNotNull(test_id) == test_id # NULL

\* run_id INTEGER NOT NULL
RunIdNotNull(run_id) == run_id # NullRunId

\* duration DOUBLE NOT NULL
DurationNotNull(duration) == duration # NULL

\* Mutant: the run_id column without its FOREIGN KEY.
RunIdUnchecked(run_id, runs) == TRUE

\* FOREIGN KEY (run_id) REFERENCES test_runs(run_id)
RunIdForeignKey(run_id, runs) == \E r \in Range(runs) : r.run_id = run_id

\* test_results: result_id PRIMARY KEY plus the column constraints.
TestResultsConstraints(row, runs, results) ==
    /\ PrimaryKey(row.result_id, {r.result_id : r \in Range(results)})
    /\ RunIdNotNull(row.run_id)
    /\ TestIdNotNull(row.test_id)
    /\ StatusCheck(row.status)
    /\ DurationNotNull(row.duration)
    /\ RunIdForeignKey(row.run_id, runs)

\* Mutant: an insert that overwrites the newest row instead of appending.
OverwriteNewest(rows, row) ==
    IF rows = <<>> THEN <<row>> ELSE [rows EXCEPT ![Len(rows)] = row]

\* Mutant: INSERT ... ON CONFLICT DO NOTHING on the caller's values (every
\* column but the generated id and timestamp).
InsertIfNew(rows, row) ==
    LET given == DOMAIN row \ {"result_id", "timestamp"}
    IN  IF \E r \in Range(rows) : \A f \in given : r[f] = row[f]
        THEN rows ELSE Append(rows, row)

\* INSERT INTO a table: the row goes after the rows already there.
InsertInto(rows, row) == Append(rows, row)

\* ------------------------------------------------ view test_summary
\* A DOUBLE ratio <<n, d>> with d > 0.
RatioGE(a, b) == a[1] * b[2] >= b[1] * a[2]
RatioEq(a, b) == a[1] * b[2] = b[1] * a[2]

\* NULLIF(n, 0): absent when n is 0.
NullIfZero(n) == IF n = 0 THEN <<>> ELSE <<n>>

\* CAST(n AS DOUBLE) / d: absent when the divisor is absent.
Divide(n, d) == IF d = <<>> THEN <<>> ELSE <<(<<n, d[1]>>)>>

\* Mutant: every row of the table, whatever its test_id.
GroupOfAnyTest(results, test_id) == DOMAIN results

\* The rows of one test_id: a GROUP BY group, the rows WHERE test_id = ?.
Group(results, test_id) == {i \in DOMAIN results : results[i].test_id = test_id}

\* Mutant: the filtered count taken over the whole table, not the group.
CountFilterAllGroups(results, test_id, status) ==
    Cardinality({i \in DOMAIN results : results[i].status = status})

\* COUNT(*) FILTER (WHERE status = s) over one group.
CountFilter(results, test_id, status) ==
    Cardinality({i \in Group(results, test_id) : results[i].status = status})

\* COUNT(*) over one group.
CountStar(results, test_id) == Cardinality(Group(results, test_id))

\* MAX(x) over a set of numbers: absent for the empty set.
Max(S) == IF S = {} THEN <<>> ELSE <<CHOOSE x \in S : \A y \in S : y <= x>>

\* MAX(tr.timestamp) FILTER (WHERE status = 'failed') over one group.
MaxFailedTimestamp(results, test_id) ==
    Max({results[i].timestamp : i \in {j \in Group(results, test_id) :
                                          results[j].status = "failed"}})

\* Mutant: the share of the results that did not fail.
SuccessRate(failures, total_runs) ==
    IF total_runs = 0 THEN <<>> ELSE <<(<<total_runs - failures, total_runs>>)>>

\* failure_rate of the view: CAST(failures AS DOUBLE) / NULLIF(COUNT(*), 0)
FailureRate(failures, total_runs) == Divide(failures, NullIfZero(total_runs))

\* One row of the view, for one group.
SummaryRow(results, test_id) ==
    [test_id |-> test_id,
     total_runs |-> CountStar(results, test_id),
     passes |-> CountFilter(results, test_id, "passed"),
     failures |-> CountFilter(results, test_id, "failed"),
     skips |-> CountFilter(results, test_id, "skipped"),
     failure_rate |-> FailureRate(CountFilter(results, test_id, "failed"),
                                  CountStar(results, test_id)),
     last_failure |-> MaxFailedTimestamp(results, test_id)]

\* Mutant: groups only for the test_ids that have a failed result.
GroupByFailed(results) ==
    {r.test_id : r \in {q \in Range(results) : q.status = "failed"}}

\* GROUP BY tr.test_id: one group for every test_id that occurs in the table.
GroupBy(results) == {r.test_id : r \in Range(results)}

\* The view test_summary: one row per group, in no particular order.
test_summary(results) == {SummaryRow(results, t) : t \in GroupBy(results)}

\* --------------------------------------------------------- queries
\* Mutant: the query without its LIMIT.
TakeAll(s, n) == s

\* LIMIT n: the first n rows, or all of them when there are fewer.
Take(s, n) == SubSeq(s, 1, IF n < Len(s) THEN n ELSE Len(s))

\* Mutant: the WHERE clause asking for a pass or a failure, not for both.
FlakyWhereEitherOutcome(row, min_runs, min_failure_rate) ==
    /\ row.total_runs >= min_runs
    /\ (row.passes > 0 \/ row.failures > 0)
    /\ row.failure_rate # <<>>
    /\ RatioGE(row.failure_rate[1], min_failure_rate)

\* Mutant: the WHERE clause without passes > 0.
FlakyWhereNoPasses(row, min_runs, min_failure_rate) ==
    /\ row.total_runs >= min_runs
    /\ row.failures > 0
    /\ row.failure_rate # <<>>
    /\ row.failure_rate[1][1] * min_failure_rate[2]
          >= min_failure_rate[1] * row.failure_rate[1][2]

\* WHERE clause of get_flaky_tests. A comparison with an absent ratio is
\* not true.
FlakyWhere(row, min_runs, min_failure_rate) ==
    /\ row.total_runs >= min_runs
    /\ row.passes > 0
    /\ row.failures > 0
    /\ Divide(row.failures, NullIfZero(row.total_runs)) # <<>>
    /\ RatioGE(Divide(row.failures, NullIfZero(row.total_runs))[1], min_failure_rate)

\* SELECT list of get_flaky_tests:
\* (test_id, total_runs, passes, failures, failure_rate)
FlakySelect(row) ==
    <<row.test_id, row.total_runs, row.passes, row.failures,
      Divide(row.failures, NullIfZero(row.total_runs))[1]>>

\* Mutant: ORDER BY failure_rate, ascending.
RECURSIVE OrderByFailureRateAsc(_)
OrderByFailureRateAsc(rows) ==
    IF rows = {} THEN {<<>>}
    ELSE UNION {{<<x>> \o s : s \in OrderByFailureRateAsc(rows \ {x})} :
                   x \in {y \in rows : \A z \in rows : RatioGE(z[5], y[5])}}

\* ORDER BY failure_rate DESC: every order of the rows in which no row comes
\* before one of greater rate; rows of equal rate come in any order.
RECURSIVE OrderByFailureRateDesc(_)
OrderByFailureRateDesc(rows) ==
    IF rows = {} THEN {<<>>}
    ELSE UNION {{<<x>> \o s : s \in OrderByFailureRateDesc(rows \ {x})} :
                   x \in {y \in rows : \A z \in rows : RatioGE(y[5], z[5])}}

\* get_flaky_tests: every sequence the query may return.
get_flaky_tests(results, min_runs, min_failure_rate) ==
    OrderByFailureRateDesc(
        {FlakySelect(row) : row \in {r \in test_summary(results) :
                                        FlakyWhere(r, min_runs, min_failure_rate)}})

\* SELECT list of get_test_history: (timestamp, status, duration, error_message)
HistorySelect(row) == <<row.timestamp, row.status, row.duration, row.error_message>>

\* ORDER BY timestamp DESC: every order of the rows (given by their places
\* in the table) in which no row comes before a later one; rows of equal
\* timestamp come in any order.
RECURSIVE OrderByTimestampDesc(_, _)
OrderByTimestampDesc(results, rows) ==
    IF rows = {} THEN {<<>>}
    ELSE UNION {{<<x>> \o s : s \in OrderByTimestampDesc(results, rows \ {x})} :
                   x \in {y \in rows : \A z \in rows :
                             results[y].timestamp >= results[z].timestamp}}

\* get_test_history(self, test_id: str, limit: int = 10)
DefaultHistoryLimit == 10

\* get_test_history: every sequence the query may return.
get_test_history(results, test_id, limit) ==
    {[k \in DOMAIN Take(s, limit) |-> HistorySelect(results[s[k]])] :
        s \in OrderByTimestampDesc(results, Group(results, test_id))}

\* ---------------------------------------------- generate_summary_json
\* get_flaky_tests(self, min_runs: int = 2, min_failure_rate: float = 0.1)
DefaultMinRuns == 2
DefaultMinFailureRate == <<1, 10>>
\* self.get_test_history(test_id, limit=5)
SummaryHistoryLimit == 5

\* datetime.isoformat(): the text of a timestamp.
IsoFormat(timestamp) == <<"iso", timestamp>>

\* row[7].split('\n') if row[7] else None: the lines of a traceback; an
\* absent traceback and the empty string both give None (<<>>).
TracebackLines(traceback) ==
    IF traceback = NoTraceback \/ traceback = <<"">> THEN <<>> ELSE traceback

\* LEFT JOIN test_results tr ON ts.test_id = tr.test_id AND
\* ts.last_failure = tr.timestamp: the (error_traceback, error_message) of
\* every result of the group stored at the instant of the last failure; one
\* row of absent values when nothing matches.
LeftJoin(results, row) ==
    LET matches == {i \in Group(results, row.test_id) :
                       row.last_failure # <<>> /\ results[i].timestamp = row.last_failure[1]}
    IN  IF matches = {}
        THEN {<<NoTraceback, NULL>>}
        ELSE {<<results[i].error_traceback, results[i].error_message>> : i \in matches}

\* The dictionary built from one fetched row (db.py lines 103-119).
SummaryEntry(row, joined) ==
    [passes |-> row.passes,
     failures |-> row.failures,
     skips |-> row.skips,
     failure_rate |-> row.failure_rate[1],
     last_failure |->
        IF row.last_failure # <<>>
        THEN <<[timestamp |-> IsoFormat(row.last_failure[1]),
                traceback |-> TracebackLines(joined[1]),
                error_message |-> joined[2]]>>
        ELSE <<>>,
     history |-> <<>>,
     analytics |-> [total_runs |-> row.total_runs,
                    is_flaky |-> FALSE,
                    avg_duration |-> "0.0",
                    flaky_details |-> <<>>,
                    performance |-> <<>>]]

\* The history entries of the report (db.py lines 124-132).
HistoryEntries(history) ==
    [k \in DOMAIN history |->
        [timestamp |-> IsoFormat(history[k][1]), status |-> history[k][2],
         duration |-> history[k][3], error_message |-> history[k][4]]]

\* flaky_details of one row of get_flaky_tests (db.py lines 140-144).
FlakyDetails(test) ==
    [failure_rate |-> test[5], total_failures |-> test[4], total_runs |-> test[2]]

\* Mutant: the loop without its line 139: the details are filled in but
\* is_flaky keeps its initial value.
MarkFlakyDetailsOnly(entry, flaky) ==
    [entry EXCEPT
        !.analytics.flaky_details =
            IF flaky = {} THEN <<>> ELSE <<FlakyDetails(CHOOSE f \in flaky : TRUE)>>]

\* The loop over get_flaky_tests() (db.py lines 135-144) as it acts on one
\* entry; flaky: the rows of get_flaky_tests() with the entry's test_id.
MarkFlaky(entry, flaky) ==
    [entry EXCEPT
        !.analytics.is_flaky = (flaky # {}),
        !.analytics.flaky_details =
            IF flaky = {} THEN <<>> ELSE <<FlakyDetails(CHOOSE f \in flaky : TRUE)>>]

\* Mutant: the aggregates taken over the whole table, whatever the test_id.
DurationsOfAnyTest(results, test_id) == DOMAIN results

\* FROM test_results GROUP BY test_id: the rows whose durations one group
\* aggregates, whatever their status.
DurationsOf(results, test_id) == Group(results, test_id)

\* The running sum of AVG(duration) over the rows S: one double addition
\* per row, in whatever order the rows reach the aggregate. Rows of equal
\* duration add alike, so one row stands for each duration still to come.
RECURSIVE DoubleSums(_, _, _)
DoubleSums(results, S, acc) ==
    IF S = {} THEN {acc}
    ELSE UNION {DoubleSums(results,
                           S \ {CHOOSE i \in S : results[i].duration = d},
                           DoubleAdd(acc, d)) :
                   d \in {results[i].duration : i \in S}}

\* MIN(duration), MAX(duration) over a set of doubles that is not empty.
DoubleMin(S) == CHOOSE x \in S : \A y \in S : DoubleLE(x, y)
DoubleMax(S) == CHOOSE x \in S : \A y \in S : DoubleLE(y, x)

\* AVG / MIN / MAX (duration) ... GROUP BY test_id (db.py lines 147-163):
\* every performance block the query may give a test_id.
Performance(results, test_id) ==
    LET g == DurationsOf(results, test_id)
        d == {results[i].duration : i \in g}
    IN  {[avg_duration |-> DoubleDiv(sum, Cardinality(g)),
          min_duration |-> DoubleMin(d),
          max_duration |-> DoubleMax(d)] : sum \in DoubleSums(results, g, "0.0")}

\* The dictionary of one test_id (db.py lines 103-163), given the row the
\* join delivered last, the performance block and the history.
SummaryEntryOf(results, test_id, joined, performance, h) ==
    LET row == SummaryRow(results, test_id)
        flaky == {f \in {FlakySelect(r) :
                            r \in {q \in test_summary(results) :
                                      FlakyWhere(q, DefaultMinRuns, DefaultMinFailureRate)}} :
                     f[1] = test_id}
    IN  [MarkFlaky(SummaryEntry(row, joined), flaky) EXCEPT
            !.history = HistoryEntries(h),
            !.analytics.performance = <<performance>>]

\* Every dictionary generate_summary_json may build for one test_id: one
\* per row the join may deliver last, per order of the history and per
\* order of the summation of the durations.
SummaryEntries(results, test_id) ==
    {SummaryEntryOf(results, test_id, joined, performance, h) :
         joined \in LeftJoin(results, SummaryRow(results, test_id)),
         performance \in Performance(results, test_id),
         h \in get_test_history(results, test_id, SummaryHistoryLimit)}

\* The dictionaries with the given keys: one entry per key, each any of
\* those the key may get.
RECURSIVE SummaryDicts(_, _)
SummaryDicts(results, keys) ==
    IF keys = {} THEN {<<>>}
    ELSE LET t == CHOOSE k \in keys : TRUE
         IN  {(t :> e) @@ f : e \in SummaryEntries(results, t),
                              f \in SummaryDicts(results, keys \ {t})}

\* generate_summary_json: every report it may return.
generate_summary_json(results) == SummaryDicts(results, GroupBy(results))

\* ------------------------------------------------------------ engine
\* What SQL leaves open the engine settles by its plan and by what is
\* stored: the order of the rows that compare equal under ORDER BY
\* timestamp DESC, for each test_id (rows), the order of the tests of equal
\* rate among those the WHERE clause of get_flaky_tests can let through
\* (flaky), the row the join delivers last for each test_id (joined) and the
\* order in which AVG sums the durations (performance). The engine settles
\* them when the stored rows are first read, and the same statement on the
\* same stored rows gives the same answer; a write to test_results and the
\* end of the process leave them open again.

\* One of the open answers for every test_id: the functions that give each
\* key one element of its set.
Choices(open) ==
    {f \in [DOMAIN open -> UNION {open[t] : t \in DOMAIN open}] :
        \A t \in DOMAIN open : f[t] \in open[t]}

\* Nothing is settled: no statement has read the rows stored.
Unsettled ==
    [settled |-> FALSE, rows |-> <<>>, flaky |-> <<>>, joined |-> <<>>,
     performance |-> <<>>]

Engines(results) ==
    [settled : {TRUE},
     rows : Choices([t \in GroupBy(results) |->
                        OrderByTimestampDesc(results, Group(results, t))]),
     flaky : OrderByFailureRateDesc(
                {FlakySelect(row) : row \in {r \in test_summary(results) :
                                                FlakyWhere(r, 0, <<0, 1>>)}}),
     joined : Choices([t \in GroupBy(results) |->
                          LeftJoin(results, SummaryRow(results, t))]),
     performance : Choices([t \in GroupBy(results) |-> Performance(results, t)])]

\* The engines a read may meet: the one that has settled, or any that the
\* first read of the stored rows settles.
Settle(e, results) == IF e.settled THEN {e} ELSE Engines(results)

\* get_test_history as the engine answers it: the rows WHERE test_id = ? in
\* the engine's order (a test_id without rows has one order, the empty
\* one), cut by LIMIT.
HistoryOf(results, rows, test_id, limit) ==
    LET s == IF test_id \in DOMAIN rows
             THEN SelectSeq(rows[test_id], LAMBDA i : i \in Group(results, test_id))
             ELSE CHOOSE o \in OrderByTimestampDesc(results, Group(results, test_id)) : TRUE
    IN  [k \in DOMAIN Take(s, limit) |-> HistorySelect(results[s[k]])]

\* get_flaky_tests as the engine answers it: the rows the WHERE clause lets
\* through, in the engine's order.
FlakyOf(results, flaky, min_runs, min_failure_rate) ==
    SelectSeq(flaky, LAMBDA f : FlakyWhere(SummaryRow(results, f[1]),
                                           min_runs, min_failure_rate))

\* generate_summary_json as the engine answers it.
SummaryOf(results, e) ==
    [t \in GroupBy(results) |->
        SummaryEntryOf(results, t, e.joined[t], e.performance[t],
                       HistoryOf(results, e.rows, t, SummaryHistoryLimit))]

\* float(row[5]) raises TypeError for an absent failure_rate.
SummaryRaises(results) == \E row \in test_summary(results) : row.failure_rate = <<>>

\* ------------------------------------------------------------- Init
\* No pytest process: no session object.
NoSession ==
    [phase |-> "none", track_failures |-> FALSE, test_run_id |-> <<>>, results |-> <<>>]

HookCall(op, args, outcome) == [op |-> op, args |-> args, outcome |-> outcome]

\* No database file and no snapshot file yet, no process started.
Init ==
    /\ db_exists = FALSE
    /\ test_runs = <<>>
    /\ test_results = <<>>
    /\ run_id_seq = 1
    /\ result_id_seq = 1
    /\ run_id_saved = 1
    /\ result_id_saved = 1
    /\ handles = 0
    /\ clock = 0
    /\ last = Call("none", <<>>, "ok", <<>>)
    /\ session = NoSession
    /\ results_file = <<>>
    /\ hook = HookCall("none", <<>>, "ok")
    /\ engine = Unsettled

\* ---------------------------------------------------- write actions
\* TestResultsDB.__init__: duckdb.connect (one database instance per file
\* and process, shared by every handle) followed by _init_tables.
Construct ==
    /\ handles < MaxHandles
    /\ db_exists' = TRUE
    /\ test_runs' = CreateTableIfNotExists(db_exists, test_runs)
    /\ test_results' = CreateTableIfNotExists(db_exists, test_results)
    /\ engine' = engine
    /\ run_id_seq' = CreateSequenceIfNotExists(db_exists, run_id_seq)
    /\ result_id_seq' = CreateSequenceIfNotExists(db_exists, result_id_seq)
    /\ run_id_saved' = CreateSequenceIfNotExists(db_exists, run_id_saved)
    /\ result_id_saved' = CreateSequenceIfNotExists(db_exists, result_id_saved)
    /\ handles' = handles + 1
    /\ last' = Call("__init__", <<>>, "ok", <<>>)
    /\ UNCHANGED clock

\* start_test_run: one INSERT ... RETURNING run_id. A statement that fails
\* rolls back and stores nothing, but the value nextval handed out stays
\* consumed in memory.
StartTestRunWith(pytest_version, python_version, now) ==
    LET nv == nextval(run_id_seq)
        row == [run_id |-> nv.value, timestamp |-> now,
                pytest_version |-> pytest_version,
                python_version |-> python_version]
        args == <<pytest_version, python_version>>
    IN  /\ run_id_seq' = nv.seq
        /\ IF TestRunsConstraints(row, test_runs)
           THEN /\ test_runs' = InsertInto(test_runs, row)
                /\ run_id_saved' = nv.seq
                /\ clock' = now
                /\ last' = Call("start_test_run", args, "ok", <<nv.value>>)
           ELSE /\ UNCHANGED <<test_runs, run_id_saved, clock>>
                /\ last' = Call("start_test_run", args, "ConstraintException", <<>>)
        /\ UNCHANGED <<db_exists, test_results, engine, result_id_seq, result_id_saved, handles>>

\* in: the arguments the callers of one specification pass.
StartTestRun(in) ==
    /\ handles > 0
    /\ Len(test_runs) < MaxRuns
    /\ run_id_seq <= MaxRunSeq
    /\ \E pv \in in.versions, now \in CurrentTimestamp(in.run_steps) :
          StartTestRunWith(pv, "3.9.0", now)

\* add_test_result: one INSERT INTO test_results.
AddTestResultWith(run_id, test_id, status, duration, error, now) ==
    LET nv == nextval(result_id_seq)
        row == [result_id |-> nv.value, run_id |-> run_id, test_id |-> test_id,
                status |-> status, duration |-> duration,
                error_message |-> error[1], error_traceback |-> error[2],
                timestamp |-> now]
        args == <<run_id, test_id, status, duration, error>>
    IN  /\ result_id_seq' = nv.seq
        /\ IF TestResultsConstraints(row, test_runs, test_results)
           THEN /\ test_results' = InsertInto(test_results, row)
                /\ engine' = Unsettled
                /\ result_id_saved' = nv.seq
                /\ clock' = now
                /\ last' = Call("add_test_result", args, "ok", <<>>)
           ELSE /\ UNCHANGED <<test_results, engine, result_id_saved, clock>>
                /\ last' = Call("add_test_result", args, "ConstraintException", <<>>)
        /\ UNCHANGED <<db_exists, test_runs, run_id_seq, run_id_saved, handles>>

\* add_test_result when the engine cannot carry out the INSERT (the disk is
\* full, the file has become read-only): conn.execute raises, the statement
\* is rolled back and nothing is stored.
AddTestResultRaises(run_id, test_id, status, duration, error, exception) ==
    LET nv == nextval(result_id_seq)
        args == <<run_id, test_id, status, duration, error>>
    IN  /\ result_id_seq' = nv.seq
        /\ last' = Call("add_test_result", args, exception, <<>>)
        /\ UNCHANGED <<test_results, engine, result_id_saved, clock>>
        /\ UNCHANGED <<db_exists, test_runs, run_id_seq, run_id_saved, handles>>

\* The run ids a caller holds: the one its own start_test_run returned
\* ("latest") or any one returned so far ("any").
ExistingRunIds == {r.run_id : r \in Range(test_runs)}
LatestRunId == IF test_runs = <<>> THEN {} ELSE {test_runs[Len(test_runs)].run_id}
HeldRunIds(which) == IF which = "latest" THEN LatestRunId ELSE ExistingRunIds

\* Argument tuples <<run_id, test_id, status, duration, error>> that satisfy
\* every constraint: a failed result carries its error, the others none.
GoodCalls(run_ids, test_ids, statuses, durations) ==
    {<<r, t, s, d, IF s = "failed" THEN SomeError ELSE NoError>> :
        r \in run_ids, t \in test_ids, s \in statuses, d \in durations}

\* Argument tuples that carry an error whatever the status: no constraint
\* ties error_message and error_traceback to the status.
ErrorCalls(run_ids, test_ids, statuses, durations) ==
    {<<r, t, s, d, SomeError>> :
        r \in run_ids, t \in test_ids, s \in statuses, d \in durations}

\* Argument tuples with one bad argument: a run_id that does not exist, an
\* absent test_id, a status outside the enumeration.
BadCalls(run_ids) ==
    {<<NoSuchRun, "test_a", "passed", "0.1", NoError>>}
    \cup {<<r, NULL, "passed", "0.1", NoError>> : r \in run_ids}
    \cup {<<r, "test_a", "invalid_status", "0.1", NoError>> : r \in run_ids}

\* Argument tuples with None for a column that is NOT NULL and that
\* test_constraints does not try: run_id, duration.
NullCalls(run_ids) ==
    {<<NullRunId, "test_a", "passed", "0.1", NoError>>}
    \cup {<<r, "test_a", "passed", NULL, NoError>> : r \in run_ids}

AddTestResult(in) ==
    /\ handles > 0
    /\ Len(test_results) < MaxResults + in.extra
    /\ result_id_seq <= MaxResultSeq + in.extra
    /\ \E c \in GoodCalls(HeldRunIds(in.runs), in.test_ids, in.statuses, in.durations)
                \cup (IF in.bad
                      THEN BadCalls(LatestRunId) \cup NullCalls(LatestRunId)
                      ELSE {})
                \cup (IF in.any_error
                      THEN ErrorCalls(HeldRunIds(in.runs), in.test_ids, in.statuses,
                                      in.durations)
                      ELSE {}),
          now \in CurrentTimestamp(in.steps) :
            AddTestResultWith(c[1], c[2], c[3], c[4], c[5], now)

\* The process ends: every handle is gone and the database is closed. The
\* rows are durable; a sequence value consumed by a statement that failed
\* was never committed, so the file holds either the committed value or
\* (when the closing checkpoint wrote the catalog) the value in memory.
\* What the engine had settled goes with the process.
ProcessExit ==
    /\ handles > 0
    /\ handles' = 0
    /\ \E r \in {run_id_seq, run_id_saved} :
          /\ run_id_seq' = r
          /\ run_id_saved' = r
    /\ \E r \in {result_id_seq, result_id_saved} :
          /\ result_id_seq' = r
          /\ result_id_saved' = r
    /\ last' = Call("exit", <<>>, "ok", <<>>)
    /\ engine' = Unsettled
    /\ UNCHANGED <<db_exists, test_runs, test_results, clock>>

\* ------------------------------------------------------ read actions
\* Mutant: a read after which the engine settles its open choices anew.
ReturnsAnew(op, args, ret, e) ==
    /\ handles > 0
    /\ last' = Call(op, args, "ok", ret)
    /\ engine' \in Engines(test_results)
    /\ UNCHANGED <<db_exists, test_runs, test_results, run_id_seq, result_id_seq,
                   run_id_saved, result_id_saved, handles, clock>>

\* A read method: SELECT statements only; it returns what it fetched from
\* the engine e, which stays as the read met it.
Returns(op, args, ret, e) ==
    /\ handles > 0
    /\ last' = Call(op, args, "ok", ret)
    /\ engine' = e
    /\ UNCHANGED <<db_exists, test_runs, test_results, run_id_seq, result_id_seq,
                   run_id_saved, result_id_saved, handles, clock>>

GetTestHistory(in) ==
    \E e \in Settle(engine, test_results) :
        \E t \in in.test_ids, n \in in.limits :
            Returns("get_test_history", <<t, n>>,
                    HistoryOf(test_results, e.rows, t, n), e)

GetFlakyTests(in) ==
    \E e \in Settle(engine, test_results) :
        \E m \in in.min_runs, q \in in.min_failure_rates :
            Returns("get_flaky_tests", <<m, q>>,
                    FlakyOf(test_results, e.flaky, m, q), e)

GenerateSummaryJson ==
    IF SummaryRaises(test_results)
    THEN /\ handles > 0
         /\ last' = Call("generate_summary_json", <<>>, "TypeError", <<>>)
         /\ UNCHANGED <<db_exists, test_runs, test_results, engine, run_id_seq, result_id_seq,
                        run_id_saved, result_id_saved, handles, clock>>
    ELSE \E e \in Settle(engine, test_results) :
            Returns("generate_summary_json", <<>>, SummaryOf(test_results, e), e)

\* ------------------------------------------------- plugin (plugin.py)
\* call.excinfo: None (<<>>) or <<[value, tb]>>, the exception a phase of
\* the test raised; tb is given by the strings traceback.format_tb makes of
\* it, one per frame, each ending in '\n'.
NoExcinfo == <<>>
SomeExcinfo == <<[value |-> "AssertionError", tb |-> <<<<"Traceback...", "">>>>]>>

\* The reports pytest makes of the phases of a test. A strict xfail test
\* that passes is reported as failed with no exception (call.excinfo is
\* None); a skip and an expected failure raise in their phase.
PytestReports ==
    {[when |-> "setup",    outcome |-> "passed",  excinfo |-> NoExcinfo],
     [when |-> "setup",    outcome |-> "failed",  excinfo |-> SomeExcinfo],
     [when |-> "setup",    outcome |-> "skipped", excinfo |-> SomeExcinfo],
     [when |-> "call",     outcome |-> "passed",  excinfo |-> NoExcinfo],
     [when |-> "call",     outcome |-> "failed",  excinfo |-> SomeExcinfo],
     [when |-> "call",     outcome |-> "failed",  excinfo |-> NoExcinfo],
     [when |-> "call",     outcome |-> "skipped", excinfo |-> SomeExcinfo],
     [when |-> "teardown", outcome |-> "passed",  excinfo |-> NoExcinfo],
     [when |-> "teardown", outcome |-> "failed",  excinfo |-> SomeExcinfo]}

\* The reports whose test raised whenever it is reported as failed.
ReportsWithExcinfo ==
    {r \in PytestReports : r.outcome = "failed" => r.excinfo # NoExcinfo}

\* json.dump / json.load of the results mapping: an object of objects; None
\* is written as null, a dict, a list, a str and an int as themselves.
JsonNull == [null |-> TRUE]

JsonDumpEntry(entry) ==
    [passes |-> entry.passes, failures |-> entry.failures, skips |-> entry.skips,
     last_failure |-> IF entry.last_failure = <<>> THEN JsonNull
                      ELSE entry.last_failure[1]]

JsonDump(results) == [t \in DOMAIN results |-> JsonDumpEntry(results[t])]

JsonLoadEntry(object) ==
    [passes |-> object.passes, failures |-> object.failures, skips |-> object.skips,
     last_failure |-> IF object.last_failure = JsonNull THEN <<>>
                      ELSE <<object.last_failure>>]

JsonLoad(text) == [t \in DOMAIN text |-> JsonLoadEntry(text[t])]

\* A hook returns or raises without touching the store.
HookOnly(op, args, outcome) ==
    /\ hook' = HookCall(op, args, outcome)
    /\ UNCHANGED <<db_exists, test_runs, test_results, engine, run_id_seq, result_id_seq,
                   run_id_saved, result_id_saved, handles, clock, last>>

\* Mutant: the session starts with an empty mapping whatever the file holds.
LoadNothing == <<>>

\* if RESULTS_FILE.exists(): json.load(f) else: {}
LoadResults == IF results_file # <<>> THEN JsonLoad(results_file[1]) ELSE <<>>

\* pytest_sessionstart: without --track-failures nothing; with it a
\* TestResultsDB is built (__init__ and _init_tables), start_test_run is
\* called once and its run_id kept, and the snapshot is loaded.
PytestSessionstart(in) ==
    /\ session.phase = "none"
    /\ handles = 0
    /\ \E track \in in.tracking :
          IF ~track
          THEN /\ session' = [NoSession EXCEPT !.phase = "running"]
               /\ HookOnly("pytest_sessionstart", <<track>>, "ok")
               /\ UNCHANGED results_file
          ELSE /\ Len(test_runs) < MaxRuns
               /\ \E now \in CurrentTimestamp(in.run_steps) :
                     LET runs == CreateTableIfNotExists(db_exists, test_runs)
                         seq == CreateSequenceIfNotExists(db_exists, run_id_seq)
                         nv == nextval(seq)
                         row == [run_id |-> nv.value, timestamp |-> now,
                                 pytest_version |-> "7.0.0",
                                 python_version |-> "3.9.0"]
                     IN  /\ TestRunsConstraints(row, runs)
                         /\ db_exists' = TRUE
                         /\ handles' = handles + 1
                         /\ test_runs' = InsertInto(runs, row)
                         /\ test_results' = CreateTableIfNotExists(db_exists, test_results)
                         /\ engine' = engine
                         /\ run_id_seq' = nv.seq
                         /\ run_id_saved' = nv.seq
                         /\ result_id_seq' = CreateSequenceIfNotExists(db_exists, result_id_seq)
                         /\ result_id_saved' = CreateSequenceIfNotExists(db_exists, result_id_saved)
                         /\ clock' = now
                         /\ last' = Call("start_test_run", <<"7.0.0", "3.9.0">>, "ok", <<nv.value>>)
                         /\ session' = [phase |-> "running", track_failures |-> TRUE,
                                        test_run_id |-> <<nv.value>>,
                                        results |-> <<LoadResults>>]
                         /\ hook' = HookCall("pytest_sessionstart", <<track>>, "ok")
                         /\ UNCHANGED results_file

\* report.when == "call" or (report.when == "setup" and report.skipped)
Processed(report) ==
    \/ report.when = "call"
    \/ report.when = "setup" /\ report.outcome = "skipped"

\* The entry of a test_id the snapshot does not know yet.
NewEntry == [passes |-> 0, failures |-> 0, skips |-> 0, last_failure |-> <<>>]

WithEntry(results, test_id) ==
    IF test_id \in DOMAIN results THEN results ELSE (test_id :> NewEntry) @@ results

\* passes, failures or skips += 1, by the outcome of the report.
Count(results, test_id, outcome) ==
    IF outcome = "passed" THEN [results EXCEPT ![test_id].passes = @ + 1]
    ELSE IF outcome = "failed" THEN [results EXCEPT ![test_id].failures = @ + 1]
    ELSE [results EXCEPT ![test_id].skips = @ + 1]

\* "".join(strings): strings as sequences of the segments between '\n'.
RECURSIVE Join(_)
Join(strings) ==
    IF strings = <<>> THEN <<"">>
    ELSE LET a == Head(strings)
             b == Join(Tail(strings))
         IN  SubSeq(a, 1, Len(a) - 1) \o <<a[Len(a)] \o b[1]>> \o Tail(b)

\* The failure information the snapshot keeps of a failed report.
LastFailureOf(excinfo, pynow) ==
    [timestamp |-> IsoFormat(pynow), traceback |-> excinfo.tb,
     error_message |-> excinfo.value]

\* Mutant: the error of the exception stored whatever the outcome.
ErrorOfAnyOutcome(report) ==
    IF report.excinfo # NoExcinfo
    THEN <<report.excinfo[1].value, Join(report.excinfo[1].tb)>>
    ELSE NoError

\* error_message, error_traceback: those of the exception when the report
\* is failed, None otherwise.
ErrorOf(report) ==
    IF report.outcome = "failed" /\ report.excinfo # NoExcinfo
    THEN <<report.excinfo[1].value, Join(report.excinfo[1].tb)>>
    ELSE NoError

\* Mutant: the hook passing the id of the first run of the log.
FirstRunId == test_runs[1].run_id

\* run_id=item.session.test_run_id: what start_test_run returned at the
\* start of this session.
SessionRunId == session.test_run_id[1]

\* Mutant: a hook that swallows the error of add_test_result.
Swallow(outcome) == "ok"

\* No try/except around add_test_result: what it raises, the hook raises.
Propagate(outcome) == outcome

\* pytest_runtest_makereport, after the yield, for one report of one test.
\* call.excinfo.tb raises AttributeError when call.excinfo is None
\* (hasattr(call, 'excinfo') is true of every CallInfo): the failure is
\* counted by then, last_failure is not set and nothing is stored.
\* pynow is the reading of datetime.now() for last_failure, now the later
\* reading of CURRENT_TIMESTAMP by the INSERT.
MakeReport(test_id, report, duration, pynow, now, fault) ==
    LET args == <<test_id, report.when, report.outcome, report.excinfo # NoExcinfo>>
    IN  IF ~session.track_failures \/ ~Processed(report)
        THEN /\ HookOnly("pytest_runtest_makereport", args, "ok")
             /\ UNCHANGED <<session, results_file>>
        ELSE LET counted == Count(WithEntry(session.results[1], test_id),
                                  test_id, report.outcome)
             IN  IF report.outcome = "failed" /\ report.excinfo = NoExcinfo
                 THEN /\ session' = [session EXCEPT !.results = <<counted>>,
                                                    !.phase = "raised"]
                      /\ HookOnly("pytest_runtest_makereport", args, "AttributeError")
                      /\ UNCHANGED results_file
                 ELSE /\ Len(test_results) < MaxResults
                      /\ result_id_seq <= MaxResultSeq
                      /\ IF fault
                         THEN AddTestResultRaises(SessionRunId, test_id,
                                                  report.outcome, duration,
                                                  ErrorOf(report), "IOException")
                         ELSE AddTestResultWith(SessionRunId, test_id,
                                                report.outcome, duration,
                                                ErrorOf(report), now)
                      /\ session' =
                            [session EXCEPT
                                !.results = <<IF report.outcome = "failed"
                                              THEN [counted EXCEPT ![test_id].last_failure =
                                                       <<LastFailureOf(report.excinfo[1], pynow)>>]
                                              ELSE counted>>,
                                !.phase = IF last'.outcome = "ok" THEN "running" ELSE "raised"]
                      /\ hook' = HookCall("pytest_runtest_makereport", args,
                                          Propagate(last'.outcome))
                      /\ UNCHANGED results_file

\* datetime.now(): the hook reads the wall clock after the last statement
\* of the store and before its own INSERT reads CURRENT_TIMESTAMP; only a
\* failed report makes it read the clock.
DatetimeNow(report, now) == IF report.outcome = "failed" THEN clock..now ELSE {now}

\* A hook that raised ends the run of the tests (pytest reports an internal
\* error and goes on to pytest_sessionfinish).
PytestRuntestMakereport(in) ==
    /\ session.phase = "running"
    /\ \E t \in in.test_ids, report \in in.reports, d \in in.durations,
          now \in CurrentTimestamp(in.steps), fault \in in.faults :
            \E pynow \in DatetimeNow(report, now) : MakeReport(t, report, d, pynow, now, fault)

\* pytest_sessionfinish: the snapshot is written when tracking is on and the
\* session has one.
PytestSessionfinish ==
    /\ session.phase \in {"running", "raised"}
    /\ session' = [session EXCEPT !.phase = IF session.phase = "running"
                                            THEN "finished" ELSE "aborted"]
    /\ results_file' = IF session.track_failures /\ session.results # <<>>
                       THEN <<JsonDump(session.results[1])>>
                       ELSE results_file
    /\ HookOnly("pytest_sessionfinish", <<>>, "ok")

\* pytest_terminal_summary: a second TestResultsDB on the same file and its
\* generate_summary_json; what is printed is no part of the state.
PytestTerminalSummary ==
    /\ session.phase = "finished"
    /\ session' = [session EXCEPT !.phase = "summarized"]
    /\ UNCHANGED results_file
    /\ IF ~session.track_failures
       THEN HookOnly("pytest_terminal_summary", <<>>, "ok")
       ELSE /\ handles < MaxHandles
            /\ handles' = handles + 1
            /\ IF SummaryRaises(test_results)
               THEN /\ last' = Call("generate_summary_json", <<>>, "TypeError", <<>>)
                    /\ hook' = HookCall("pytest_terminal_summary", <<>>, "TypeError")
                    /\ engine' = engine
               ELSE \E e \in Settle(engine, test_results) :
                       /\ last' = Call("generate_summary_json", <<>>, "ok",
                                        SummaryOf(test_results, e))
                       /\ hook' = HookCall("pytest_terminal_summary", <<>>, "ok")
                       /\ engine' = e
            /\ UNCHANGED <<db_exists, test_runs, test_results, run_id_seq,
                           result_id_seq, run_id_saved, result_id_saved, clock>>

\* The pytest process ends after its session: the session object is gone
\* and the database, if one was opened, is closed.
PytestExit ==
    /\ session.phase \in {"finished", "aborted", "summarized"}
    /\ session' = NoSession
    /\ hook' = HookCall("exit", <<>>, "ok")
    /\ UNCHANGED results_file
    /\ IF handles > 0 THEN ProcessExit
       ELSE UNCHANGED <<db_exists, test_runs, test_results, engine, run_id_seq, result_id_seq,
                        run_id_saved, result_id_saved, handles, clock, last>>

\* ------------------------------------------------------ specifications
\* The arguments each specification's callers pass: the versions and the
\* clock steps of start_test_run; the run ids ("latest": the one the last
\* start_test_run returned, "any": any stored one), test ids, statuses and
\* durations of add_test_result, whether calls with a bad argument are made
\* too, and its clock steps; the limits of get_test_history and the
\* thresholds of get_flaky_tests. any_error: whether calls are made that
\* pass an error with a status other than failed. extra: the results a specification stores
\* beyond MaxResults.
Inputs ==
    [versions |-> {"7.0.0"}, run_steps |-> {0},
     runs |-> "latest", test_ids |-> {"test_a", "test_b"},
     statuses |-> ValidStatuses, durations |-> {"0.1"}, bad |-> FALSE,
     any_error |-> FALSE, steps |-> {1},
     extra |-> 0,
     limits |-> {1, SummaryHistoryLimit},
     min_runs |-> {DefaultMinRuns, 3},
     min_failure_rates |-> {DefaultMinFailureRate, <<1, 2>>}]

InputsRows ==
    [Inputs EXCEPT !.test_ids = {"test_a", "test_b", ""}, !.bad = TRUE]

InputsRuns ==
    [Inputs EXCEPT !.versions = {"7.0.0", NULL}, !.runs = "any",
                   !.test_ids = {"test_a"}, !.statuses = {"passed", "failed"},
                   !.bad = TRUE]

\* Spec: every operation of the store in any order, over several runs and
\* several processes: start_test_run on a store that holds runs and
\* results, add_test_result under any stored run, the three queries and
\* the re-initialization by a second handle and by a new process.
InputsLog ==
    [Inputs EXCEPT !.runs = "any", !.test_ids = {"test_a"},
                   !.statuses = {"passed", "failed"},
                   !.limits = {SummaryHistoryLimit},
                   !.min_runs = {DefaultMinRuns},
                   !.min_failure_rates = {DefaultMinFailureRate}]

Next ==
    \/ Construct /\ UNCHANGED plugin
    \/ StartTestRun(InputsLog) /\ UNCHANGED plugin
    \/ AddTestResult(InputsLog) /\ UNCHANGED plugin
    \/ GetTestHistory(InputsLog) /\ UNCHANGED plugin
    \/ GetFlakyTests(InputsLog) /\ UNCHANGED plugin
    \/ GenerateSummaryJson /\ UNCHANGED plugin
    \/ ProcessExit /\ UNCHANGED plugin

Spec == Init /\ [][Next]_vars

\* SpecSummary: the view, the queries and the report on the log of one run
\* that holds the results of two tests in every status.
NextSummary ==
    \/ Construct /\ UNCHANGED plugin
    \/ test_runs = <<>> /\ StartTestRun(Inputs) /\ UNCHANGED plugin
    \/ AddTestResult(Inputs) /\ UNCHANGED plugin
    \/ GetTestHistory(Inputs) /\ UNCHANGED plugin
    \/ GetFlakyTests(Inputs) /\ UNCHANGED plugin
    \/ GenerateSummaryJson /\ UNCHANGED plugin
    \/ ProcessExit /\ UNCHANGED plugin

SpecSummary == Init /\ [][NextSummary]_vars

\* SpecRows: the rows of one run, written by calls with good and with bad
\* arguments (an unknown run_id, an absent or empty test_id, a status
\* outside the enumeration).
NextRows ==
    \/ Construct /\ UNCHANGED plugin
    \/ test_runs = <<>> /\ StartTestRun(InputsRows) /\ UNCHANGED plugin
    \/ AddTestResult(InputsRows) /\ UNCHANGED plugin
    \/ ProcessExit /\ UNCHANGED plugin

SpecRows == Init /\ [][NextRows]_vars

\* SpecRuns: several runs over several processes; start_test_run and
\* add_test_result calls that fail consume sequence values.
NextRuns ==
    \/ Construct /\ UNCHANGED plugin
    \/ StartTestRun(InputsRuns) /\ UNCHANGED plugin
    \/ AddTestResult(InputsRuns) /\ UNCHANGED plugin
    \/ ProcessExit /\ UNCHANGED plugin

SpecRuns == Init /\ [][NextRuns]_vars

\* SpecTies: the history of a log in which a statement may read the same
\* instant as the statement before it (CURRENT_TIMESTAMP is the start of
\* the transaction, in microseconds), so that results may share a
\* timestamp.
InputsTies ==
    [Inputs EXCEPT !.statuses = {"passed", "failed"}, !.steps = {0, 1}]

NextTies ==
    \/ Construct /\ UNCHANGED plugin
    \/ test_runs = <<>> /\ StartTestRun(InputsTies) /\ UNCHANGED plugin
    \/ AddTestResult(InputsTies) /\ UNCHANGED plugin
    \/ GetTestHistory(InputsTies) /\ UNCHANGED plugin

SpecTies == Init /\ [][NextTies]_vars

\* SpecReads: the three queries, each called again and again between the
\* writes, on a log written within one instant (one transaction): all its
\* results share their timestamp, so that the order of every history and
\* the row the report's join delivers are what the engine settles.
InputsReads ==
    [InputsTies EXCEPT !.steps = {0}, !.limits = {1},
                       !.min_runs = {DefaultMinRuns},
                       !.min_failure_rates = {DefaultMinFailureRate}]

NextReads ==
    \/ Construct /\ UNCHANGED plugin
    \/ test_runs = <<>> /\ StartTestRun(InputsReads) /\ UNCHANGED plugin
    \/ AddTestResult(InputsReads) /\ UNCHANGED plugin
    \/ GetTestHistory(InputsReads) /\ UNCHANGED plugin
    \/ GetFlakyTests(InputsReads) /\ UNCHANGED plugin
    \/ GenerateSummaryJson /\ UNCHANGED plugin

SpecReads == Init /\ [][NextReads]_vars

\* SpecSameInstant: the report of a log of one test whose results may share
\* a timestamp.
InputsSameInstant ==
    [InputsTies EXCEPT !.test_ids = {"test_a"}]

NextSameInstant ==
    \/ Construct /\ UNCHANGED plugin
    \/ test_runs = <<>> /\ StartTestRun(InputsSameInstant) /\ UNCHANGED plugin
    \/ AddTestResult(InputsSameInstant) /\ UNCHANGED plugin
    \/ GenerateSummaryJson /\ UNCHANGED plugin

SpecSameInstant == Init /\ [][NextSameInstant]_vars

\* SpecFlaky: get_flaky_tests and the report on logs of results of every
\* status, with thresholds from none at all to the defaults.
InputsFlaky ==
    [Inputs EXCEPT !.min_runs = {0, DefaultMinRuns},
                   !.min_failure_rates = {<<0, 1>>, DefaultMinFailureRate}]

NextFlaky ==
    \/ Construct /\ UNCHANGED plugin
    \/ test_runs = <<>> /\ StartTestRun(InputsFlaky) /\ UNCHANGED plugin
    \/ AddTestResult(InputsFlaky) /\ UNCHANGED plugin
    \/ GetFlakyTests(InputsFlaky) /\ UNCHANGED plugin
    \/ GenerateSummaryJson /\ UNCHANGED plugin

SpecFlaky == Init /\ [][NextFlaky]_vars

\* SpecFlakyOrder: get_flaky_tests on logs long enough for two flaky tests
\* of different failure rates (two results of one, three of the other).
InputsFlakyOrder ==
    [InputsFlaky EXCEPT !.statuses = {"passed", "failed"}, !.extra = 2]

NextFlakyOrder ==
    \/ Construct /\ UNCHANGED plugin
    \/ test_runs = <<>> /\ StartTestRun(InputsFlakyOrder) /\ UNCHANGED plugin
    \/ AddTestResult(InputsFlakyOrder) /\ UNCHANGED plugin
    \/ GetFlakyTests(InputsFlakyOrder) /\ UNCHANGED plugin

SpecFlakyOrder == Init /\ [][NextFlakyOrder]_vars

\* SpecDurations: the report on logs of two tests whose results, in every
\* status, took 0.1 or 0.3 seconds.
InputsDurations ==
    [Inputs EXCEPT !.durations = {"0.1", "0.3"}]

NextDurations ==
    \/ Construct /\ UNCHANGED plugin
    \/ test_runs = <<>> /\ StartTestRun(InputsDurations) /\ UNCHANGED plugin
    \/ AddTestResult(InputsDurations) /\ UNCHANGED plugin
    \/ GenerateSummaryJson /\ UNCHANGED plugin

SpecDurations == Init /\ [][NextDurations]_vars

\* SpecHistory: get_test_history, with limits from 0 to the default, for a
\* test that has results and for tests that have none.
InputsHistoryWrites ==
    [Inputs EXCEPT !.test_ids = {"test_a"}]

InputsHistory ==
    [Inputs EXCEPT !.test_ids = {"test_a", "test_b", ""},
                   !.limits = {0, 1, SummaryHistoryLimit, DefaultHistoryLimit}]

NextHistory ==
    \/ Construct /\ UNCHANGED plugin
    \/ test_runs = <<>> /\ StartTestRun(InputsHistoryWrites) /\ UNCHANGED plugin
    \/ AddTestResult(InputsHistoryWrites) /\ UNCHANGED plugin
    \/ GetTestHistory(InputsHistory) /\ UNCHANGED plugin

SpecHistory == Init /\ [][NextHistory]_vars

\* SpecPlugin: sessions of pytest with --track-failures, one after the
\* other, that report the phases of two tests as pytest does. faults:
\* whether the engine may fail to carry out an INSERT.
InputsPlugin ==
    [tracking |-> {TRUE}, run_steps |-> {0}, steps |-> {1},
     test_ids |-> {"test_a", "test_b"}, reports |-> PytestReports,
     durations |-> {"0.1"}, faults |-> {FALSE}]

NextPlugin ==
    \/ PytestSessionstart(InputsPlugin)
    \/ PytestRuntestMakereport(InputsPlugin)
    \/ PytestSessionfinish
    \/ PytestTerminalSummary
    \/ PytestExit

SpecPlugin == Init /\ [][NextPlugin]_vars

\* SpecSessions: sessions with and without --track-failures, whose tests
\* raise whenever they are reported as failed; the reports are those the
\* hook processes: a test that passes, one that fails, one skipped in setup.
InputsSessions ==
    [InputsPlugin EXCEPT !.tracking = {TRUE, FALSE},
                         !.reports = {r \in ReportsWithExcinfo :
                                         /\ Processed(r)
                                         /\ r.when = "call" => r.outcome # "skipped"}]

NextSessions ==
    \/ PytestSessionstart(InputsSessions)
    \/ PytestRuntestMakereport(InputsSessions)
    \/ PytestSessionfinish
    \/ PytestTerminalSummary
    \/ PytestExit

SpecSessions == Init /\ [][NextSessions]_vars

\* SpecErrors: the writes of one tracked session, by the hook and by direct
\* calls of add_test_result that pass error_message and error_traceback
\* with any status.
InputsErrorsHook ==
    [InputsPlugin EXCEPT !.test_ids = {"test_a"},
                         !.reports = {r \in ReportsWithExcinfo : Processed(r)}]

InputsErrors ==
    [Inputs EXCEPT !.test_ids = {"test_b"}, !.any_error = TRUE]

NextErrors ==
    \/ test_runs = <<>> /\ PytestSessionstart(InputsErrorsHook)
    \/ PytestRuntestMakereport(InputsErrorsHook)
    \/ AddTestResult(InputsErrors) /\ UNCHANGED plugin
    \/ PytestSessionfinish
    \/ PytestExit

SpecErrors == Init /\ [][NextErrors]_vars

\* SpecFaults: the writes of one tracked session, by the hook (which the
\* engine may fail) and by direct calls of add_test_result with good and
\* with bad arguments.
InputsFaults ==
    [InputsPlugin EXCEPT !.test_ids = {"test_a"}, !.faults = {FALSE, TRUE},
                         !.reports = {r \in ReportsWithExcinfo : r.when = "call"}]

InputsFaultsRows ==
    [InputsRows EXCEPT !.test_ids = {"test_b"}, !.statuses = {"failed"}]

NextFaults ==
    \/ test_runs = <<>> /\ PytestSessionstart(InputsFaults)
    \/ PytestRuntestMakereport(InputsFaults)
    \/ AddTestResult(InputsFaultsRows) /\ UNCHANGED plugin
    \/ PytestSessionfinish
    \/ PytestExit

SpecFaults == Init /\ [][NextFaults]_vars

\* ------------------------------------------------------------ claims
\* Counting straight from the table, for comparison with the view.
AllTestIds == {"test_a", "test_b", ""}
Stored(test_id, status) ==
    Len(SelectSeq(test_results, LAMBDA r : r.test_id = test_id /\ r.status = status))
StoredAll(test_id) == Len(SelectSeq(test_results, LAMBDA r : r.test_id = test_id))

IsPrefix(s, t) == Len(s) <= Len(t) /\ SubSeq(t, 1, Len(s)) = s

ReadOps == {"get_test_history", "get_flaky_tests", "generate_summary_json"}

\* C1: for every test_id that has results, the summary (the view and the
\* report built from it) has total_runs = passes + failures + skips, each
\* count being the number of stored results of that test_id and status.
C1_CountsAddUp ==
    /\ \A row \in test_summary(test_results) :
          /\ row.total_runs = row.passes + row.failures + row.skips
          /\ row.passes = Stored(row.test_id, "passed")
          /\ row.failures = Stored(row.test_id, "failed")
          /\ row.skips = Stored(row.test_id, "skipped")
          /\ row.total_runs = StoredAll(row.test_id)
    /\ \A t \in AllTestIds :
          StoredAll(t) > 0 => \E row \in test_summary(test_results) : row.test_id = t
    /\ (last.op = "generate_summary_json" /\ last.outcome = "ok") =>
          \A t \in DOMAIN last.ret :
              /\ last.ret[t].analytics.total_runs
                    = last.ret[t].passes + last.ret[t].failures + last.ret[t].skips
              /\ last.ret[t].passes = Stored(t, "passed")
              /\ last.ret[t].failures = Stored(t, "failed")
              /\ last.ret[t].skips = Stored(t, "skipped")

\* C1 witness: a report for a test that passed, failed and was skipped
\* once each.
C1_Witness ==
    /\ last.op = "generate_summary_json"
    /\ "test_a" \in DOMAIN last.ret
    /\ last.ret["test_a"].passes = 1
    /\ last.ret["test_a"].failures = 1
    /\ last.ret["test_a"].skips = 1

\* The claim's condition for a flaky test, from the rows of the table.
IsFlaky(test_id, min_runs, min_failure_rate) ==
    /\ StoredAll(test_id) >= min_runs
    /\ Stored(test_id, "passed") > 0
    /\ Stored(test_id, "failed") > 0
    /\ Stored(test_id, "failed") * min_failure_rate[2]
          >= min_failure_rate[1] * StoredAll(test_id)

\* C2: get_flaky_tests(min_runs, min_failure_rate) returns a test_id exactly
\* when total_runs >= min_runs, passes > 0, failures > 0 and
\* failures / total_runs >= min_failure_rate; each at most once.
C2_FlakyIff ==
    (last.op = "get_flaky_tests") =>
        /\ last.outcome = "ok"
        /\ {row[1] : row \in Range(last.ret)}
              = {t \in AllTestIds : IsFlaky(t, last.args[1], last.args[2])}
        /\ \A i, j \in DOMAIN last.ret : last.ret[i][1] = last.ret[j][1] => i = j

\* C2 witness: test_a passed, failed, passed; get_flaky_tests(2, 0.1)
\* returns test_a with 3 runs and failure rate 1/3.
C2_Witness ==
    /\ last.op = "get_flaky_tests"
    /\ last.args = <<DefaultMinRuns, DefaultMinFailureRate>>
    /\ [k \in DOMAIN test_results |-> test_results[k].status] = <<"passed", "failed", "passed">>
    /\ \A k \in DOMAIN test_results : test_results[k].test_id = "test_a"
    /\ Len(last.ret) = 1
    /\ last.ret[1][1] = "test_a"
    /\ last.ret[1][2] = 3
    /\ RatioEq(last.ret[1][5], <<1, 3>>)

\* C5: the log is append-only. No step changes or removes a row of either
\* table; start_test_run leaves the result log unchanged, add_test_result
\* leaves the run log unchanged, and the queries and a repeated
\* initialization leave both unchanged.
C5_AppendOnly ==
    [][/\ IsPrefix(test_runs, test_runs')
       /\ IsPrefix(test_results, test_results')
       /\ last'.op = "start_test_run" => test_results' = test_results
       /\ last'.op = "add_test_result" => test_runs' = test_runs
       /\ last'.op \in ReadOps \cup {"exit"} =>
             test_runs' = test_runs /\ test_results' = test_results
       /\ (last'.op = "__init__" /\ db_exists) =>
             test_runs' = test_runs /\ test_results' = test_results]_vars

\* C5 witness: start_test_run has just added a second run to a store that
\* holds the first run and two results of it.
C5_Witness ==
    /\ last.op = "start_test_run"
    /\ last.outcome = "ok"
    /\ handles = 1
    /\ Len(test_runs) = 2
    /\ Len(test_results) >= 2
    /\ \A r \in Range(test_results) : r.run_id = test_runs[1].run_id

\* C6: every failure_rate the store computes is present and equals
\* failures / total_runs: every row of the view has total_runs > 0 (a
\* test_id without results has no row, so NULLIF never yields an absent
\* rate and the 0.0 convention for total_runs = 0 is never called upon), and
\* generate_summary_json never fails to convert a rate.
C6_FailureRate ==
    /\ \A row \in test_summary(test_results) :
          /\ row.total_runs > 0
          /\ row.failure_rate # <<>>
          /\ row.failure_rate[1][2] # 0
          /\ RatioEq(row.failure_rate[1],
                     <<Stored(row.test_id, "failed"), StoredAll(row.test_id)>>)
    /\ last.op = "generate_summary_json" =>
          /\ last.outcome = "ok"
          /\ \A t \in DOMAIN last.ret :
                /\ last.ret[t].failure_rate[2] # 0
                /\ RatioEq(last.ret[t].failure_rate, <<Stored(t, "failed"), StoredAll(t)>>)

\* C6 witness: a report that gives a test with one failure in three
\* results the failure rate 1/3.
C6_Witness ==
    /\ last.op = "generate_summary_json"
    /\ \E t \in DOMAIN last.ret :
          /\ last.ret[t].failures = 1
          /\ last.ret[t].analytics.total_runs = 3
          /\ RatioEq(last.ret[t].failure_rate, <<1, 3>>)

\* A step of add_test_result (every action sets last.op to its own name).
AddStep == last'.op = "add_test_result"
AddFails == last'.outcome = "ConstraintException" /\ test_results' = test_results
AddAppends(args) ==
    /\ last'.outcome = "ok"
    /\ Len(test_results') = Len(test_results) + 1
    /\ IsPrefix(test_results, test_results')
    /\ LET row == test_results'[Len(test_results')]
       IN  <<row.run_id, row.test_id, row.status, row.duration,
             <<row.error_message, row.error_traceback>>>> = args

\* C3: every stored Result references an existing Run, and add_test_result
\* with a run_id that no start_test_run has produced fails with a
\* constraint error and adds no row.
C3_ReferentialIntegrity ==
    /\ [](\A r \in Range(test_results) : \E run \in Range(test_runs) : run.run_id = r.run_id)
    /\ [][(AddStep /\ last'.args[1] \notin {run.run_id : run \in Range(test_runs)})
             => AddFails]_vars

\* C3 witness: two runs with results of both, and a call with an unknown
\* run_id has just been rejected.
C3_Witness ==
    /\ last.op = "add_test_result"
    /\ last.args[1] = NoSuchRun
    /\ last.outcome = "ConstraintException"
    /\ Len(test_runs) = 2
    /\ \A run \in Range(test_runs) : \E r \in Range(test_results) : r.run_id = run.run_id

StrictlyIncreasing(ids) == \A i, j \in DOMAIN ids : i < j => ids[i] < ids[j]
RunIds == [k \in DOMAIN test_runs |-> test_runs[k].run_id]
ResultIds == [k \in DOMAIN test_results |-> test_results[k].result_id]

\* C4: run_id and result_id are unique, strictly increasing in insertion
\* order and never reused: every id in a table is greater than the ids
\* stored before it, the id start_test_run returns is the greatest so far,
\* and both sequences (in memory and as saved in the file) stay ahead of
\* every id handed to a stored row, also after failed inserts and after
\* the store is closed and opened again.
C4_MonotonicIds ==
    /\ StrictlyIncreasing(RunIds)
    /\ StrictlyIncreasing(ResultIds)
    /\ \A k \in DOMAIN RunIds : RunIds[k] < run_id_seq /\ RunIds[k] < run_id_saved
    /\ \A k \in DOMAIN ResultIds :
          ResultIds[k] < result_id_seq /\ ResultIds[k] < result_id_saved
    /\ (last.op = "start_test_run" /\ last.outcome = "ok") =>
          /\ last.ret[1] = RunIds[Len(RunIds)]
          /\ \A k \in 1..(Len(RunIds) - 1) : RunIds[k] < last.ret[1]

\* C4 witness: a store opened again by a new process, whose runs and
\* results both skip an id that a failed insert consumed.
C4_Witness ==
    /\ last.op = "__init__"
    /\ handles = 1
    /\ Len(RunIds) = 2 /\ RunIds[2] > RunIds[1] + 1
    /\ Len(ResultIds) >= 2 /\ ResultIds[2] > ResultIds[1] + 1

\* C7: the status of every stored Result is passed, failed or skipped, and
\* add_test_result with any other status fails with a constraint error and
\* adds no row.
C7_StatusEnumeration ==
    /\ [](\A r \in Range(test_results) : r.status \in {"passed", "failed", "skipped"})
    /\ [][(AddStep /\ last'.args[3] \notin {"passed", "failed", "skipped"})
             => AddFails]_vars

\* C7 witness: results in two of the statuses are stored and a call with
\* the status invalid_status has just been rejected.
C7_Witness ==
    /\ last.op = "add_test_result"
    /\ last.args[3] = "invalid_status"
    /\ last.outcome = "ConstraintException"
    /\ Cardinality({r.status : r \in Range(test_results)}) = 2

\* C8 as stated: no stored Result has an empty or absent test_id.
C8_NoEmptyOrAbsentTestId ==
    \A r \in Range(test_results) : r.test_id # NULL /\ r.test_id # ""

\* C8 amended: add_test_result with an absent test_id fails with a
\* constraint error and adds no row, so no stored Result has an absent
\* test_id; an empty test_id is a value like any other and the row is stored.
C8_AbsentTestIdRejected ==
    /\ [](\A r \in Range(test_results) : r.test_id # NULL)
    /\ [][(AddStep /\ last'.args[2] = NULL) => AddFails]_vars
    /\ [][(AddStep /\ last'.args[2] = "") => AddAppends(last'.args)]_vars

\* C8 witness: a call with an absent test_id has just been rejected, and
\* the table holds a result whose test_id is empty.
C8_Witness ==
    /\ last.op = "add_test_result"
    /\ last.args[2] = NULL
    /\ last.outcome = "ConstraintException"
    /\ \E r \in Range(test_results) : r.test_id = ""

\* C9: add_test_result is not idempotent. Every successful call adds
\* exactly one row, which holds the arguments, and raises total_runs of its
\* test_id by exactly one, also when its arguments equal those of an
\* earlier call.
C9_NotIdempotent ==
    [][(AddStep /\ last'.outcome = "ok") =>
          /\ AddAppends(last'.args)
          /\ \A t \in AllTestIds :
                CountStar(test_results', t)
                   = CountStar(test_results, t) + (IF t = last'.args[2] THEN 1 ELSE 0)]_vars

\* C9 witness: the call that has just succeeded had the arguments of an
\* earlier call, and both rows are stored.
C9_Witness ==
    /\ last.op = "add_test_result"
    /\ last.outcome = "ok"
    /\ Len(test_results) >= 2
    /\ LET n == Len(test_results)
       IN  \E k \in 1..(n - 1) :
              \A f \in {"run_id", "test_id", "status", "duration",
                        "error_message", "error_traceback"} :
                  test_results[k][f] = test_results[n][f]

\* C10: initialization is idempotent. Constructing TestResultsDB on a
\* location that already holds the schema, in a new process or beside a
\* handle that is still open, leaves every Run row, every Result row and
\* both sequences unchanged.
C10_InitIdempotent ==
    [][(last'.op = "__init__" /\ db_exists) =>
          /\ test_runs' = test_runs
          /\ test_results' = test_results
          /\ run_id_seq' = run_id_seq
          /\ result_id_seq' = result_id_seq
          /\ run_id_saved' = run_id_saved
          /\ result_id_saved' = result_id_saved]_vars

\* C10 witness: a second handle has just been built beside an open one, on
\* a store that holds runs and results and has handed out ids.
C10_Witness ==
    /\ last.op = "__init__"
    /\ handles = 2
    /\ Len(test_runs) >= 1
    /\ Len(test_results) >= 1
    /\ run_id_seq > 1
    /\ result_id_seq > 1

\* The places in the table of the results of one test_id, and the columns
\* of a result that a history entry shows.
ResultsOf(test_id) == {i \in DOMAIN test_results : test_results[i].test_id = test_id}
Shown(i) ==
    <<test_results[i].timestamp, test_results[i].status,
      test_results[i].duration, test_results[i].error_message>>
Smaller(a, b) == IF a < b THEN a ELSE b

\* C11 as stated: a get_test_history(test_id, limit >= 1) that follows a
\* successful add_test_result for that test_id (the newest row of the table
\* is the one just inserted) returns as its first entry the status, the
\* duration and the error message of that row.
C11_RoundTrip ==
    (/\ last.op = "get_test_history"
     /\ test_results # <<>>
     /\ test_results[Len(test_results)].test_id = last.args[1]
     /\ last.args[2] >= 1)
    => /\ Len(last.ret) >= 1
       /\ last.ret[1][2] = test_results[Len(test_results)].status
       /\ last.ret[1][3] = test_results[Len(test_results)].duration
       /\ last.ret[1][4] = test_results[Len(test_results)].error_message

\* C12: get_test_history(test_id, N) returns min(N, number of results of
\* test_id) entries, newest first by timestamp; they are results of that
\* test_id, each taken once, and no result of the test_id left out is newer
\* than one returned.
C12_HistoryLimit ==
    (last.op = "get_test_history") =>
        LET g == ResultsOf(last.args[1])
            n == Len(last.ret)
        IN  /\ last.outcome = "ok"
            /\ n = Smaller(last.args[2], Cardinality(g))
            /\ \A k \in 1..(n - 1) : last.ret[k][1] >= last.ret[k + 1][1]
            /\ \E f \in [1..n -> g] :
                  /\ \A j, k \in 1..n : f[j] = f[k] => j = k
                  /\ \A k \in 1..n : last.ret[k] = Shown(f[k])
                  /\ \A k \in 1..n : \A i \in g \ {f[j] : j \in 1..n} :
                        test_results[f[k]].timestamp >= test_results[i].timestamp

\* C12 witness: a history cut to one entry, of a test with three results of
\* which the two newest share a timestamp, beside a result of another test.
C12_Witness ==
    /\ last.op = "get_test_history"
    /\ last.args = <<"test_a", 1>>
    /\ Len(last.ret) = 1
    /\ Cardinality(ResultsOf("test_a")) >= 2
    /\ ResultsOf("test_b") # {}
    /\ \E i, j \in ResultsOf("test_a") :
          /\ i # j
          /\ test_results[i].timestamp = test_results[j].timestamp
          /\ test_results[i].timestamp = last.ret[1][1]

\* The history as the claim orders it: by timestamp descending, then by
\* result_id descending.
RECURSIVE ByTimestampThenResultIdDesc(_)
ByTimestampThenResultIdDesc(rows) ==
    IF rows = {} THEN <<>>
    ELSE LET x == CHOOSE i \in rows : \A j \in rows :
                     \/ test_results[i].timestamp > test_results[j].timestamp
                     \/ /\ test_results[i].timestamp = test_results[j].timestamp
                        /\ test_results[i].result_id >= test_results[j].result_id
         IN  <<x>> \o ByTimestampThenResultIdDesc(rows \ {x})

\* C13 as stated: results of a test_id that share a timestamp come in the
\* history by result_id descending, so the history is the one sequence the
\* log determines.
C13_TieBreakByResultId ==
    (last.op = "get_test_history") =>
        LET s == ByTimestampThenResultIdDesc(ResultsOf(last.args[1]))
            n == Smaller(last.args[2], Len(s))
        IN  last.ret = [k \in 1..n |-> Shown(s[k])]

\* The failed results of a test_id with the greatest timestamp.
LastFailed(test_id) ==
    LET failed == {i \in ResultsOf(test_id) : test_results[i].status = "failed"}
    IN  {i \in failed : \A j \in failed :
            test_results[i].timestamp >= test_results[j].timestamp}

\* C14 as stated: in the report, last_failure of a test_id is absent exactly
\* when the test_id has no failed result; otherwise it shows the timestamp,
\* the error message and the traceback of a failed result of the test_id
\* with the greatest timestamp, whatever else carries that timestamp.
C14_LastFailure ==
    (last.op = "generate_summary_json" /\ last.outcome = "ok") =>
        \A t \in DOMAIN last.ret :
            /\ (last.ret[t].last_failure = <<>>) <=> (LastFailed(t) = {})
            /\ last.ret[t].last_failure # <<>> =>
                  \E i \in LastFailed(t) :
                      /\ last.ret[t].last_failure[1].timestamp
                            = IsoFormat(test_results[i].timestamp)
                      /\ last.ret[t].last_failure[1].error_message
                            = test_results[i].error_message
                      /\ last.ret[t].last_failure[1].traceback
                            = TracebackLines(test_results[i].error_traceback)

\* C15: the keys of the report are exactly the test_ids that have at least
\* one stored result, those that never failed included; a log without
\* results (with or without runs) gives the empty report.
C15_ReportKeys ==
    (last.op = "generate_summary_json") =>
        /\ last.outcome = "ok"
        /\ DOMAIN last.ret = {t \in AllTestIds : StoredAll(t) > 0}
        /\ test_results = <<>> => DOMAIN last.ret = {}

\* C15 witness: a report whose only key is a test that passed and was
\* skipped but never failed, while the other test has no result.
C15_Witness ==
    /\ last.op = "generate_summary_json"
    /\ DOMAIN last.ret = {"test_a"}
    /\ Stored("test_a", "passed") > 0
    /\ Stored("test_a", "skipped") > 0
    /\ Stored("test_a", "failed") = 0
    /\ last.ret["test_a"].last_failure = <<>>

\* The test_ids get_flaky_tests returns with its default thresholds.
DefaultFlakyIds ==
    UNION {{row[1] : row \in Range(f)} :
              f \in get_flaky_tests(test_results, DefaultMinRuns, DefaultMinFailureRate)}

\* C16: in the report, analytics.is_flaky of a test_id is true exactly when
\* get_flaky_tests with the default thresholds returns the test_id, and
\* flaky_details is present exactly when is_flaky is true.
C16_IsFlakyIff ==
    (last.op = "generate_summary_json" /\ last.outcome = "ok") =>
        \A t \in DOMAIN last.ret :
            /\ last.ret[t].analytics.is_flaky <=> t \in DefaultFlakyIds
            /\ last.ret[t].analytics.flaky_details # <<>>
                  <=> last.ret[t].analytics.is_flaky

\* C16 witness: a report in which test_a (passed and failed) is flaky and
\* has its details, and test_b is not flaky and has none.
C16_Witness ==
    /\ last.op = "generate_summary_json"
    /\ DOMAIN last.ret = {"test_a", "test_b"}
    /\ last.ret["test_a"].analytics.is_flaky
    /\ last.ret["test_a"].analytics.flaky_details # <<>>
    /\ ~last.ret["test_b"].analytics.is_flaky
    /\ last.ret["test_b"].analytics.flaky_details = <<>>

\* C17: the sequence get_flaky_tests returns is sorted by failure_rate
\* descending: of two consecutive entries the first has the greater or the
\* same failure_rate, and each failure_rate is failures / total_runs of its
\* entry.
C17_FlakySorted ==
    (last.op = "get_flaky_tests") =>
        /\ \A k \in 1..(Len(last.ret) - 1) :
              RatioGE(last.ret[k][5], last.ret[k + 1][5])
        /\ \A k \in DOMAIN last.ret :
              RatioEq(last.ret[k][5], <<last.ret[k][4], last.ret[k][2]>>)

\* C17 witness: get_flaky_tests returns two tests, the one that failed two
\* times in three before the one that failed once in two.
C17_Witness ==
    /\ last.op = "get_flaky_tests"
    /\ Len(last.ret) = 2
    /\ RatioEq(last.ret[1][5], <<2, 3>>)
    /\ RatioEq(last.ret[2][5], <<1, 2>>)
    /\ last.ret[1][1] = "test_b"
    /\ test_results[1].test_id = "test_a"

\* What the last call says about a test_id: get_flaky_tests returned it, or
\* the report marks it flaky (or gives it flaky_details).
ClassifiedFlaky(test_id) ==
    \/ /\ last.op = "get_flaky_tests"
       /\ \E k \in DOMAIN last.ret : last.ret[k][1] = test_id
    \/ /\ last.op = "generate_summary_json"
       /\ last.outcome = "ok"
       /\ test_id \in DOMAIN last.ret
       /\ \/ last.ret[test_id].analytics.is_flaky
          \/ last.ret[test_id].analytics.flaky_details # <<>>

\* C18: a test_id whose stored results are all failed, however many and
\* whatever the thresholds, is never returned by get_flaky_tests and is
\* never marked flaky in the report.
C18_AllFailedNeverFlaky ==
    \A t \in AllTestIds :
        (StoredAll(t) > 0 /\ Stored(t, "failed") = StoredAll(t)) => ~ClassifiedFlaky(t)

\* C18 witness: get_flaky_tests, asked with no minimum of runs and no
\* minimum rate, returns nothing for a log of three failed results of test_a.
C18_Witness ==
    /\ last.op = "get_flaky_tests"
    /\ last.args = <<0, <<0, 1>>>>
    /\ Stored("test_a", "failed") = 3
    /\ StoredAll("test_a") = 3
    /\ last.ret = <<>>

\* C19: a test_id with exactly one stored result, whatever its status, is
\* never returned by get_flaky_tests and never marked flaky in the report.
C19_SingleResultNeverFlaky ==
    \A t \in AllTestIds : StoredAll(t) = 1 => ~ClassifiedFlaky(t)

\* C19 witness: get_flaky_tests, asked with no minimum of runs and no
\* minimum rate, returns test_b (passed and failed) and leaves out test_a,
\* which has one result, a skipped one.
C19_Witness ==
    /\ last.op = "get_flaky_tests"
    /\ last.args = <<0, <<0, 1>>>>
    /\ StoredAll("test_a") = 1
    /\ Stored("test_a", "skipped") = 1
    /\ Len(last.ret) = 1
    /\ last.ret[1][1] = "test_b"

\* The durations of the stored results of a test_id, whatever their status,
\* and the averages double arithmetic may give them.
StoredDurations(test_id) == {test_results[i].duration : i \in ResultsOf(test_id)}
DoubleAverages(test_id) ==
    {DoubleDiv(sum, Cardinality(ResultsOf(test_id))) :
        sum \in DoubleSums(test_results, ResultsOf(test_id), "0.0")}

\* What C20 and its amendment share: every test_id of the report has a
\* performance block, which holds the least and the greatest duration of
\* all stored results of the test_id and the average of their durations as
\* double arithmetic gives it.
PerformanceOfAllResults ==
    \A t \in DOMAIN last.ret :
        /\ last.ret[t].analytics.performance # <<>>
        /\ LET p == last.ret[t].analytics.performance[1]
           IN  /\ p.min_duration \in StoredDurations(t)
               /\ p.max_duration \in StoredDurations(t)
               /\ \A d \in StoredDurations(t) :
                     DoubleLE(p.min_duration, d) /\ DoubleLE(d, p.max_duration)
               /\ p.avg_duration \in DoubleAverages(t)

\* C20 as stated: the performance block holds the minimum, the maximum and
\* the average of the durations of all results of the test_id, every
\* test_id has one, and min_duration <= avg_duration <= max_duration.
C20_Performance ==
    (last.op = "generate_summary_json" /\ last.outcome = "ok") =>
        /\ PerformanceOfAllResults
        /\ \A t \in DOMAIN last.ret :
              LET p == last.ret[t].analytics.performance[1]
              IN  /\ DoubleLE(p.min_duration, p.avg_duration)
                  /\ DoubleLE(p.avg_duration, p.max_duration)

\* C20 amended: as stated, but with avg_duration the average in double
\* arithmetic, which rounding may take out of the interval from
\* min_duration to max_duration; min_duration <= max_duration.
C20_PerformanceRounded ==
    (last.op = "generate_summary_json" /\ last.outcome = "ok") =>
        /\ PerformanceOfAllResults
        /\ \A t \in DOMAIN last.ret :
              LET p == last.ret[t].analytics.performance[1]
              IN  DoubleLE(p.min_duration, p.max_duration)

\* C20 witness: the report for test_a, which passed in 0.1 s, failed in
\* 0.3 s and was skipped in 0.1 s; its performance block has the minimum 0.1,
\* the maximum 0.3 and the average 0.5 / 3.
C20_Witness ==
    /\ last.op = "generate_summary_json"
    /\ \E i, j, k \in ResultsOf("test_a") :
          /\ test_results[i].status = "passed" /\ test_results[i].duration = "0.1"
          /\ test_results[j].status = "failed" /\ test_results[j].duration = "0.3"
          /\ test_results[k].status = "skipped" /\ test_results[k].duration = "0.1"
    /\ last.ret["test_a"].analytics.performance
          = <<[avg_duration |-> "0.16666666666666666",
               min_duration |-> "0.1", max_duration |-> "0.3"]>>

\* A step in which add_test_result is called (every call draws one value of
\* result_id_seq, and nothing else does), and such a step of the hook
\* (which counts the report in the snapshot first).
AddCalled == result_id_seq' = result_id_seq + 1
AddCalledByHook == AddCalled /\ session' # session

\* C21: a write is never silently lost. Every call of add_test_result
\* either returns normally and has added exactly one row, which holds the
\* given values, or raises and has added no row; and when the hook
\* pytest_runtest_makereport called it, the hook raises what it raised.
C21_NoSilentLoss ==
    [][AddCalled =>
          /\ last'.op = "add_test_result"
          /\ \/ AddAppends(last'.args)
             \/ last'.outcome # "ok" /\ test_results' = test_results
          /\ AddCalledByHook =>
                /\ hook'.op = "pytest_runtest_makereport"
                /\ hook'.outcome = last'.outcome]_vars

\* C21 witness: the engine failed the INSERT of the hook, after an earlier
\* result was stored: the hook has raised the IOException and the log holds
\* the earlier result only.
C21_Witness ==
    /\ hook.op = "pytest_runtest_makereport"
    /\ hook.outcome = "IOException"
    /\ last.op = "add_test_result"
    /\ last.outcome = "IOException"
    /\ Len(test_results) = 1
    /\ session.results[1]["test_a"].passes + session.results[1]["test_a"].failures
          + session.results[1]["test_a"].skips = 2

\* A step of a read operation (every method sets last to its own call; the
\* plugin's variables tell a hook's step from a method's).
ReadStep == last'.op \in ReadOps /\ plugin' = plugin

\* The read leaves the two logs and both id counters as they were.
ReadLeavesStore ==
    /\ store' = store
    /\ <<run_id_saved, result_id_saved, db_exists>>' = <<run_id_saved, result_id_saved, db_exists>>

\* What a read method called with the given arguments returns from the
\* given rows and engine.
AnswerOf(op, args, results, e) ==
    IF op = "get_test_history" THEN HistoryOf(results, e.rows, args[1], args[2])
    ELSE IF op = "get_flaky_tests" THEN FlakyOf(results, e.flaky, args[1], args[2])
    ELSE SummaryOf(results, e)

C23_UnknownTestIdEmpty ==
    (last.op = "get_test_history" /\ ResultsOf(last.args[1]) = {}) =>
        /\ last.outcome = "ok"
        /\ last.ret = <<>>

\* C23 witness: with results of test_a stored, the history of test_b was
\* asked for with the default limit and came back empty.
C23_Witness ==
    /\ last.op = "get_test_history"
    /\ last.args = <<"test_b", DefaultHistoryLimit>>
    /\ last.outcome = "ok"
    /\ last.ret = <<>>
    /\ Len(test_results) = MaxResults

\* C24: in every reachable state a stored Result carries an error_message
\* or an error_traceback only when its status is failed; a passed or
\* skipped Result has both absent.
C24_ErrorOnlyWhenFailed ==
    \A r \in Range(test_results) :
        r.status # "failed" =>
            r.error_message = NULL /\ r.error_traceback = NoTraceback

\* C24 amended: a Result stored by the hook pytest_runtest_makereport
\* carries an error_message or an error_traceback only when its status is
\* failed (add_test_result itself stores the error it is given, whatever
\* the status).
C24_HookErrorOnlyWhenFailed ==
    [][(AddCalledByHook /\ last'.outcome = "ok") =>
          LET row == test_results'[Len(test_results')]
          IN  /\ Len(test_results') = Len(test_results) + 1
              /\ row.status # "failed" =>
                    row.error_message = NULL /\ row.error_traceback = NoTraceback]_vars

\* C24 witness: the hook has stored the result of a test that was skipped
\* in its call phase, by raising, and the result carries no error.
C24_Witness ==
    /\ hook.op = "pytest_runtest_makereport"
    /\ hook.args = <<"test_a", "call", "skipped", TRUE>>
    /\ hook.outcome = "ok"
    /\ test_results # <<>>
    /\ LET row == test_results[Len(test_results)]
       IN  /\ row.test_id = "test_a"
           /\ row.status = "skipped"
           /\ row.error_message = NULL
           /\ row.error_traceback = NoTraceback

\* A step of pytest_runtest_makereport in a session that tracks, for a
\* report the hook processes (while the tests run no other hook is called,
\* and a direct call of a method leaves the plugin's state alone); the entry the snapshot has of a test_id, zero when it has none.
ProcessedReportStep ==
    /\ session.phase = "running"
    /\ session.track_failures
    /\ hook'.op = "pytest_runtest_makereport"
    /\ plugin' # plugin
    /\ Processed([when |-> hook'.args[2], outcome |-> hook'.args[3]])

SnapshotEntry(results, test_id) ==
    IF test_id \in DOMAIN results THEN results[test_id]
    ELSE [passes |-> 0, failures |-> 0, skips |-> 0, last_failure |-> <<>>]

Plus(outcome, counted) == IF outcome = counted THEN 1 ELSE 0

\* C25: for every report the hook processes with tracking on, exactly one
\* of passes, failures and skips of the report's test_id goes up by one, by
\* the outcome, and the other two stay; last_failure is set when the
\* outcome is failed and stays otherwise; the entries of every other
\* test_id stay.
C25_ExactlyOneCounter ==
    [][ProcessedReportStep =>
          LET t == hook'.args[1]
              outcome == hook'.args[3]
              before == SnapshotEntry(session.results[1], t)
              after == session'.results[1]
          IN  /\ t \in DOMAIN after
              /\ after[t].passes = before.passes + Plus(outcome, "passed")
              /\ after[t].failures = before.failures + Plus(outcome, "failed")
              /\ after[t].skips = before.skips + Plus(outcome, "skipped")
              /\ IF outcome = "failed"
                 THEN after[t].last_failure # <<>>
                 ELSE after[t].last_failure = before.last_failure
              /\ \A u \in DOMAIN after \ {t} :
                    u \in DOMAIN session.results[1] /\ after[u] = session.results[1][u]]_vars

\* The JSON text holds the mapping: the same test_ids, for each of them the
\* same three counts and the same last_failure (null for None).
HoldsMapping(text, results) ==
    /\ DOMAIN text = DOMAIN results
    /\ \A t \in DOMAIN results :
          /\ text[t].passes = results[t].passes
          /\ text[t].failures = results[t].failures
          /\ text[t].skips = results[t].skips
          /\ IF results[t].last_failure = <<>>
             THEN text[t].last_failure = JsonNull
             ELSE text[t].last_failure = results[t].last_failure[1]

\* The steps of the two hooks in a session that tracks.
SessionfinishStep ==
    hook'.op = "pytest_sessionfinish" /\ session.phase # session'.phase
        /\ session.track_failures
SessionstartStep ==
    hook'.op = "pytest_sessionstart" /\ session.phase = "none"
        /\ session'.phase = "running" /\ session'.track_failures

\* C26: the snapshot round trip. pytest_sessionfinish writes the session's
\* results mapping to the file, nothing else touches the file, and the
\* next pytest_sessionstart loads from it the very mapping that was
\* written, so that the counts go on from where the last session left
\* them; with no file the session starts with the empty mapping.
C26_SnapshotRoundTrip ==
    [][/\ SessionfinishStep =>
             /\ results_file' # <<>>
             /\ HoldsMapping(results_file'[1], session.results[1])
       /\ ~SessionfinishStep => results_file' = results_file
       /\ SessionstartStep =>
             /\ session'.results # <<>>
             /\ IF results_file = <<>>
                THEN DOMAIN session'.results[1] = {}
                ELSE HoldsMapping(results_file[1], session'.results[1])]_vars

\* C26 witness: the second tracked session has started and has loaded what
\* the first one wrote: test_a with a failure and its last_failure, test_b
\* with a pass and none.
C26_Witness ==
    /\ hook.op = "pytest_sessionstart"
    /\ Len(test_runs) = 2
    /\ session.phase = "running"
    /\ session.results # <<>>
    /\ DOMAIN session.results[1] = {"test_a", "test_b"}
    /\ session.results[1]["test_a"].failures = 1
    /\ session.results[1]["test_a"].last_failure # <<>>
    /\ session.results[1]["test_b"].passes = 1
    /\ session.results[1]["test_b"].last_failure = <<>>

\* A step in which start_test_run is called (every call draws one value of
\* run_id_seq, and nothing else does).
StartCalled == run_id_seq' = run_id_seq + 1

\* C27: in a tracked session start_test_run is called exactly once, by
\* pytest_sessionstart and so before any add_test_result of the session;
\* the session keeps the run_id it returned, every add_test_result of the
\* hook carries it, and so every stored result references an existing run,
\* the one of its own session.
C27_OneRunPerSession ==
    /\ [][/\ StartCalled <=> SessionstartStep
          /\ SessionstartStep =>
                /\ Len(test_runs') = Len(test_runs) + 1
                /\ IsPrefix(test_runs, test_runs')
                /\ session'.test_run_id = <<test_runs'[Len(test_runs')].run_id>>
                /\ test_runs'[Len(test_runs')].run_id \notin ExistingRunIds
                /\ test_results' = test_results
          /\ ~SessionstartStep => test_runs' = test_runs
          /\ AddCalledByHook =>
                /\ session.phase = "running"
                /\ session'.test_run_id = session.test_run_id
                /\ last'.args[1] = session.test_run_id[1]
                /\ last'.args[1] = test_runs[Len(test_runs)].run_id]_vars
    /\ [](\A r \in Range(test_results) : r.run_id \in ExistingRunIds)

\* C27 witness: the hook of the second tracked session has stored a result
\* under the run of that session, beside a result of the first session
\* under the first run.
C27_Witness ==
    /\ hook.op = "pytest_runtest_makereport"
    /\ last.op = "add_test_result"
    /\ last.outcome = "ok"
    /\ Len(test_runs) = 2
    /\ session.test_run_id = <<test_runs[2].run_id>>
    /\ last.args[1] = test_runs[2].run_id
    /\ \E i, j \in DOMAIN test_results :
          /\ test_results[i].run_id = test_runs[1].run_id
          /\ test_results[j].run_id = test_runs[2].run_id

\* The snapshot as it stands: the mapping the running session holds, and
\* between sessions the mapping the last pytest_sessionfinish wrote to the
\* file; the empty mapping when neither is there.
SnapshotNow ==
    IF session.results # <<>> THEN session.results[1]
    ELSE IF results_file # <<>> THEN results_file[1]
    ELSE <<>>

\* C28: the snapshot and the database agree. With tracking on in every
\* session and both stores empty at the start, the snapshot names the
\* test_ids that have a row in test_summary, and its passes, failures and
\* skips of each of them are those of the row.
C28_StoresAgree ==
    /\ DOMAIN SnapshotNow = GroupBy(test_results)
    /\ \A row \in test_summary(test_results) :
          /\ row.test_id \in DOMAIN SnapshotNow
          /\ SnapshotNow[row.test_id].passes = row.passes
          /\ SnapshotNow[row.test_id].failures = row.failures
          /\ SnapshotNow[row.test_id].skips = row.skips
====
